---- MODULE Spec2Model ----
(***************************************************************************)
(* Orders-tracker backend: the relational store (customers, products,      *)
(* orders, order items, lots, expenses, incomes and their categories) and  *)
(* the service operations that read and write it.  Every service call runs *)
(* inside one db_session() block: what it writes becomes visible at        *)
(* session.commit(), and an exception before the commit leaves the         *)
(* committed store untouched.                                              *)
(*                                                                         *)
(* Numbers.  Money is counted in cents (Numeric(10,2) / Numeric(12,2)      *)
(* columns), a discount in whole percent, a quantity in whole units.  An   *)
(* unrounded discounted amount quantity * unit_price * (1 - discount/100)  *)
(* is counted in hundredths of a cent.  The prices and discounts of the    *)
(* model are multiples of 1/8 of the currency unit, which binary floating  *)
(* point represents exactly, so Python's round(x, 2) is round-half-even on *)
(* the exact value.                                                        *)
(***************************************************************************)
EXTENDS Integers, Sequences, FiniteSets, TLC

\* ------------------------------------------------------------------------
\* Bounds of the model
\* ------------------------------------------------------------------------
MaxCustomers == 2        \* customer ids the store hands out
MaxProducts  == 2        \* product ids the store hands out
MaxOrders    == 2        \* order ids the store hands out
MaxFirst     == 1        \* customers, orders created where one is enough
MaxItemRows  == 2        \* order item ids the store hands out
MaxLots      == 2        \* lot ids the store hands out
MaxLines     == 2        \* entries in the items list of one request
MaxCategories == 1       \* category ids the store hands out, per kind
MaxEntries   == 2        \* expense ids / income ids the store hands out
MaxRaceRows  == 3        \* order item ids handed out with two sessions open
MaxReported  == 2        \* category ids handed out where reports group by them

\* Python's None / SQL NULL for an optional number (ids, prices, dates and
\* discounts are all >= 0)
None == -1

Prices     == {25, 100}          \* product unit prices, in cents
Explicit   == 50                 \* the unit_price a request entry may carry
Discounts  == {0, 50}            \* applied_discount, in percent
Dates      == {1, 2}             \* delivery dates, as day numbers
Statuses   == {"created", "delivered"}
NoStatus   == "none"             \* OrderUpdate.status omitted

VARIABLES
    customers,      \* table customers: the set of existing ids
    products,       \* table products: id -> unit_price
    orders,         \* table orders: id -> row
    items,          \* table order_items: id -> row
    lots,           \* table lots: id -> row
    expenses_categories,  \* table expenses_categories: the existing ids
    expenses,       \* table expenses: id -> row
    incomes_categories,    \* table incomes_categories: the existing ids
    incomes,        \* table incomes: id -> row
    next_id,        \* the autoincrement counter of each table
    last,           \* the last request served and its response
    sessions        \* the calls served statement by statement

vars == <<customers, products, orders, items, lots, expenses_categories,
          expenses, incomes_categories, incomes, next_id, last, sessions>>

\* ------------------------------------------------------------------------
\* Helpers
\* ------------------------------------------------------------------------
RECURSIVE SumOver(_, _)
\* sum of f[x] over the finite set S
SumOver(S, f) ==
    IF S = {} THEN 0
    ELSE LET x == CHOOSE y \in S : TRUE
         IN  f[x] + SumOver(S \ {x}, f)

Range(s) == { s[i] : i \in DOMAIN s }

\* rows of a table without the keys in S
Without(table, S) == [ k \in (DOMAIN table) \ S |-> table[k] ]

\* ------------------------------------------------------------------------
\* Numeric semantics
\* ------------------------------------------------------------------------
\* round(x, 2) of an amount given in hundredths of a cent; the result is in
\* cents.  Python rounds an exact tie to the even neighbour.
Round2(x) ==
    LET f == x \div 100
        r == x % 100
    IN  IF r < 50 THEN f
        ELSE IF r > 50 THEN f + 1
        ELSE IF f % 2 = 0 THEN f ELSE f + 1

\* ------------------------------------------------------------------------
\* The store as one value: what a session reads and, at commit, writes
\* ------------------------------------------------------------------------
DB == [customers |-> customers, products |-> products, orders |-> orders,
       items |-> items, lots |-> lots,
       expenses_categories |-> expenses_categories, expenses |-> expenses,
       incomes_categories |-> incomes_categories, incomes |-> incomes,
       next_id |-> next_id]

\* ids of the items of one order
ItemsOf(db, order_id) ==
    { i \in DOMAIN db.items : db.items[i].order_id = order_id }

\* ------------------------------------------------------------------------
\* orders/service.py: reading
\* ------------------------------------------------------------------------
\* the pydantic Order built from an order row, its item rows and the total
OrderView(db, order_id, its, total_amount) ==
    LET o == db.orders[order_id]
    IN  [ found            |-> TRUE,
          id               |-> order_id,
          customer_id      |-> o.customer_id,
          delivery_date    |-> o.delivery_date,
          applied_discount |-> o.applied_discount,
          status           |-> o.status,
          items            |-> [ i \in its |-> db.items[i] ],
          total_amount     |-> total_amount ]

NotFound == [ found |-> FALSE ]

\* get_order_by_id, "Compute subtotal and total amount"
GetTotal(db, order_id, its) ==
    LET subtotal == SumOver(its, [ i \in its |->
                        db.items[i].quantity * db.items[i].unit_price ])
    IN  Round2(subtotal * (100 - db.orders[order_id].applied_discount))

\* get_order_by_id: the order joined to its customer, its items joined to
\* their products
get_order_by_id(db, order_id) ==
    IF order_id \notin DOMAIN db.orders
       \/ db.orders[order_id].customer_id \notin db.customers
    THEN NotFound
    ELSE LET its == { i \in DOMAIN db.items :
                        /\ db.items[i].order_id = order_id
                        /\ db.items[i].product_id \in DOMAIN db.products }
         IN  OrderView(db, order_id, its, GetTotal(db, order_id, its))

\* ALLOWED_SORTING_FIELDS of the orders listing (the fields the model's rows
\* carry)
ALLOWED_SORTING_FIELDS ==
    {"id", "delivery_date", "customer_id", "delivery_date_after",
     "delivery_date_before", "status"}

\* a filter value that does not parse as an integer / ISO date
Unparsable == -2
\* date(1900, 1, 1), the sentinel of a failed date parse
Date1900 == 0

\* one `stmt.where(...)` of list_orders: does row order_id pass the filter?
OrderFilter(db, order_id, field, value) ==
    LET o == db.orders[order_id]
    IN  IF value = None THEN TRUE
        ELSE IF field \notin ALLOWED_SORTING_FIELDS THEN TRUE
        ELSE IF field = "status" THEN o.status = value
        ELSE IF field = "id"
             THEN IF value = Unparsable THEN order_id = -1
                  ELSE order_id = value
        ELSE IF field = "customer_id"
             THEN IF value = Unparsable THEN o.customer_id = -1
                  ELSE o.customer_id = value
        ELSE IF field = "delivery_date_after"
             THEN IF value = Unparsable THEN o.delivery_date = Date1900
                  ELSE o.delivery_date >= value
        ELSE IF field = "delivery_date_before"
             THEN IF value = Unparsable THEN o.delivery_date = Date1900
                  ELSE o.delivery_date <= value
        ELSE o.delivery_date = value

\* the column a sort field names, as an integer key
OrderSortKey(db, order_id, field) ==
    IF field = "id" THEN order_id
    ELSE IF field = "customer_id" THEN db.orders[order_id].customer_id
    ELSE IF field \in {"delivery_date", "delivery_date_after",
                       "delivery_date_before"}
         THEN db.orders[order_id].delivery_date
    ELSE IF db.orders[order_id].status = "created" THEN 0 ELSE 1

RECURSIVE OrderBefore(_, _, _, _)
\* does row a come before row b under the order_by clauses?  Rows the
\* clauses do not separate stay in the store's retrieval order (by id).
OrderBefore(db, a, b, clauses) ==
    IF clauses = << >> THEN a < b
    ELSE LET c  == Head(clauses)
             ka == OrderSortKey(db, a, c.field)
             kb == OrderSortKey(db, b, c.field)
         IN  IF ka = kb THEN OrderBefore(db, a, b, Tail(clauses))
             ELSE IF c.order = "desc" THEN ka > kb ELSE ka < kb

RECURSIVE OrderedRows(_, _, _)
OrderedRows(db, S, clauses) ==
    IF S = {} THEN << >>
    ELSE LET m == CHOOSE a \in S :
                    \A b \in S \ {a} : OrderBefore(db, a, b, clauses)
         IN  <<m>> \o OrderedRows(db, S \ {m}, clauses)

\* `stmt.limit(offset + size)`: the rows up to the end of the page
OffsetLimit_NoOffset(rows, offset, size) ==
    LET hi == IF offset + size < Len(rows) THEN offset + size ELSE Len(rows)
    IN  IF hi < 1 THEN << >> ELSE SubSeq(rows, 1, hi)

\* `stmt.offset(offset).limit(size)`
OffsetLimit(rows, offset, size) ==
    LET lo == offset + 1
        hi == IF offset + size < Len(rows) THEN offset + size ELSE Len(rows)
    IN  IF lo > hi THEN << >> ELSE SubSeq(rows, lo, hi)

\* ListTotal that leaves the discount out
ListTotal_NoDiscount(db, order_id, its) ==
    LET subtotal == SumOver(its, [ i \in its |->
                        db.items[i].quantity * db.items[i].unit_price ])
    IN  Round2(subtotal * 100)

\* list_orders, "Compute subtotal and total amount" of one row of the page
ListTotal(db, order_id, its) ==
    LET subtotal == SumOver(its, [ i \in its |->
                        db.items[i].quantity * db.items[i].unit_price ])
    IN  Round2(subtotal * (100 - db.orders[order_id].applied_discount))

\* list_orders: params = [page, size, filters, sort]; filters is a function
\* field -> value, sort a sequence of [field, order]
list_orders(db, params) ==
    LET page    == IF params.page > 1 THEN params.page ELSE 1
        size    == params.size
        offset  == (page - 1) * size
        matched == { o \in DOMAIN db.orders :
                        /\ db.orders[o].customer_id \in db.customers
                        /\ \A f \in DOMAIN params.filters :
                              OrderFilter(db, o, f, params.filters[f]) }
        clauses == SelectSeq(params.sort,
                       LAMBDA s : s.field \in ALLOWED_SORTING_FIELDS)
        sorted  == OrderedRows(db, matched, clauses)
        rows    == IF size >= 0 THEN OffsetLimit(sorted, offset, size)
                   ELSE sorted
    IN  [ total |-> Cardinality(matched),
          items |-> [ k \in DOMAIN rows |->
                        LET its == { i \in DOMAIN db.items :
                                /\ db.items[i].order_id \in Range(rows)
                                /\ db.items[i].product_id \in DOMAIN db.products
                                /\ db.items[i].order_id = rows[k] }
                        IN  OrderView(db, rows[k], its,
                                      ListTotal(db, rows[k], its)) ] ]

\* ------------------------------------------------------------------------
\* Listing of the other entities
\* ------------------------------------------------------------------------
RECURSIVE KeyBefore(_, _, _, _)
\* `stmt.order_by(*order_clauses)` over integer columns: keys[r][f] is the
\* column sort field f names, in row r.  Rows the clauses do not separate
\* stay in the store's retrieval order (by id).
KeyBefore(keys, a, b, clauses) ==
    IF clauses = << >> THEN a < b
    ELSE LET c  == Head(clauses)
             ka == keys[a][c.field]
             kb == keys[b][c.field]
         IN  IF ka = kb THEN KeyBefore(keys, a, b, Tail(clauses))
             ELSE IF c.order = "desc" THEN ka > kb ELSE ka < kb

RECURSIVE SortRows(_, _, _)
SortRows(keys, S, clauses) ==
    IF S = {} THEN << >>
    ELSE LET m == CHOOSE a \in S :
                    \A b \in S \ {a} : KeyBefore(keys, a, b, clauses)
         IN  <<m>> \o SortRows(keys, S \ {m}, clauses)

\* the sort entries whose field is in the allowed-field map
KnownClauses(sort, allowed_fields) ==
    SelectSeq(sort, LAMBDA s : s.field \in allowed_fields)

\* ALLOWED_LOTS_SORTING_FIELDS (the fields the model's rows carry as numbers)
ALLOWED_LOTS_SORTING_FIELDS ==
    {"id", "lot_date", "lot_date_after", "lot_date_before"}

\* LotFilter under which a field outside the map matches no row
LotFilter_Strict(db, lot_id, field, value) ==
    /\ field \in {"id", "lot_date", "lot_date_after", "lot_date_before"}
    /\ value # None => IF field = "id" THEN lot_id = value
                       ELSE db.lots[lot_id].lot_date = value

\* one pass of the filter loop of list_lots: does row lot_id pass?
LotFilter(db, lot_id, field, value) ==
    LET lot == db.lots[lot_id]
    IN  IF value = None THEN TRUE
        ELSE IF field \notin ALLOWED_LOTS_SORTING_FIELDS THEN TRUE
        ELSE IF field = "id"
             THEN IF value = Unparsable THEN lot_id = -1
                  ELSE lot_id = value
        ELSE IF field = "lot_date_after"
             THEN IF value = Unparsable THEN lot.lot_date = Date1900
                  ELSE lot.lot_date >= value
        ELSE IF field = "lot_date_before"
             THEN IF value = Unparsable THEN lot.lot_date = Date1900
                  ELSE lot.lot_date <= value
        ELSE lot.lot_date = value

LotSortKeys(db) ==
    [ l \in DOMAIN db.lots |->
        [ f \in ALLOWED_LOTS_SORTING_FIELDS |->
            IF f = "id" THEN l ELSE db.lots[l].lot_date ] ]

\* list_lots: each lot of the page with the ids of its order items
list_lots(db, params) ==
    LET page    == IF params.page > 1 THEN params.page ELSE 1
        size    == params.size
        offset  == (page - 1) * size
        matched == { l \in DOMAIN db.lots :
                        \A f \in DOMAIN params.filters :
                            LotFilter(db, l, f, params.filters[f]) }
        clauses == KnownClauses(params.sort, ALLOWED_LOTS_SORTING_FIELDS)
        sorted  == SortRows(LotSortKeys(db), matched, clauses)
        rows    == IF size >= 0 THEN OffsetLimit(sorted, offset, size)
                   ELSE sorted
    IN  [ total |-> Cardinality(matched),
          items |-> [ k \in DOMAIN rows |->
                        [ id       |-> rows[k],
                          lot_date |-> db.lots[rows[k]].lot_date,
                          name     |-> db.lots[rows[k]].name,
                          order_items |->
                              { i \in DOMAIN db.items :
                                  /\ db.items[i].lot_id = rows[k]
                                  /\ db.items[i].product_id
                                         \in DOMAIN db.products
                                  /\ db.items[i].order_id
                                         \in DOMAIN db.orders } ] ] ]

\* ALLOWED_EXPENSES_SORTING_FIELDS / ALLOWED_INCOMES_SORTING_FIELDS (the
\* fields the model's rows carry as numbers)
ALLOWED_EXPENSES_SORTING_FIELDS ==
    {"id", "timestamp", "amount", "timestamp_after", "timestamp_before",
     "min_amount", "max_amount", "category_id"}

ALLOWED_INCOMES_SORTING_FIELDS == ALLOWED_EXPENSES_SORTING_FIELDS

\* one pass of the filter loop of list_expenses and of list_incomes over a
\* row of either table (ids have one digit, so a substring match on a
\* number is equality)
EntryFilter(table, entry_id, field, value) ==
    LET e == table[entry_id]
    IN  IF value = None THEN TRUE
        ELSE IF field \notin ALLOWED_EXPENSES_SORTING_FIELDS THEN TRUE
        ELSE IF field = "timestamp_after"
             THEN IF value = Unparsable THEN e.timestamp = Date1900
                  ELSE e.timestamp >= value
        ELSE IF field = "timestamp_before"
             THEN IF value = Unparsable THEN e.timestamp = Date1900
                  ELSE e.timestamp <= value
        ELSE IF field = "min_amount" THEN e.amount >= value
        ELSE IF field = "max_amount" THEN e.amount <= value
        ELSE IF field = "category_id" THEN e.category_id = value
        ELSE IF field = "id" THEN entry_id = value
        ELSE IF field = "timestamp" THEN e.timestamp = value
        ELSE e.amount = value

EntrySortKeys(table) ==
    [ e \in DOMAIN table |->
        [ f \in ALLOWED_EXPENSES_SORTING_FIELDS |->
            IF f = "id" THEN e
            ELSE IF f \in {"timestamp", "timestamp_after", "timestamp_before"}
                 THEN table[e].timestamp
            ELSE IF f = "category_id" THEN table[e].category_id
            ELSE table[e].amount ] ]

\* the rows of expenses (incomes) joined to their category that pass every
\* filter
EntriesMatched(categories, table, params) ==
    { e \in DOMAIN table :
        /\ table[e].category_id \in categories
        /\ \A f \in DOMAIN params.filters :
              EntryFilter(table, e, f, params.filters[f]) }

\* the page of list_expenses and of list_incomes: `if size > 0`
EntriesPage(categories, table, params) ==
    LET page    == IF params.page > 1 THEN params.page ELSE 1
        size    == params.size
        offset  == (page - 1) * size
        matched == EntriesMatched(categories, table, params)
        clauses == KnownClauses(params.sort, ALLOWED_EXPENSES_SORTING_FIELDS)
        sorted  == SortRows(EntrySortKeys(table), matched, clauses)
        rows    == IF size > 0 THEN OffsetLimit(sorted, offset, size)
                   ELSE sorted
    IN  [ k \in DOMAIN rows |->
            [ id          |-> rows[k],
              category_id |-> table[rows[k]].category_id,
              timestamp   |-> table[rows[k]].timestamp,
              amount      |-> table[rows[k]].amount ] ]

list_expenses(db, params) ==
    [ total |-> Cardinality(EntriesMatched(db.expenses_categories,
                                           db.expenses, params)),
      items |-> EntriesPage(db.expenses_categories, db.expenses, params) ]

\* list_incomes: the page, the count and the sum of the filtered amounts
list_incomes(db, params) ==
    LET matched == EntriesMatched(db.incomes_categories, db.incomes, params)
    IN  [ total |-> Cardinality(matched),
          items |-> EntriesPage(db.incomes_categories, db.incomes, params),
          total_amount |-> SumOver(matched, [ e \in matched |->
                                                db.incomes[e].amount ]) ]

\* paginate_filter_sort: table maps the id of each row of the model to its
\* columns, allowed_fields are the names of the allowed-field map; a filter
\* value is a number (equality) or Unparsable, a text no number contains
paginate_filter_sort(table, allowed_fields, params) ==
    LET page    == IF params.page > 1 THEN params.page ELSE 1
        size    == IF params.size > 1 THEN params.size ELSE 1
        offset  == (page - 1) * size
        matched == { r \in DOMAIN table :
                        \A f \in DOMAIN params.filters :
                            \/ f \notin allowed_fields
                            \/ params.filters[f] = None
                            \/ /\ params.filters[f] # Unparsable
                               /\ table[r][f] = params.filters[f] }
        clauses == KnownClauses(params.sort, allowed_fields)
        sorted  == SortRows(table, matched, clauses)
        rows    == OffsetLimit(sorted, offset, size)
    IN  [ total |-> Cardinality(matched),
          items |-> [ k \in DOMAIN rows |-> table[rows[k]] ] ]

\* ALLOWED_SORTING_FIELDS of the products (the fields the model's rows
\* carry)
ALLOWED_PRODUCT_FIELDS == {"id", "unit_price"}

list_products(db, params) ==
    paginate_filter_sort([ p \in DOMAIN db.products |->
                             [ id |-> p, unit_price |-> db.products[p] ] ],
                         ALLOWED_PRODUCT_FIELDS, params)

\* ALLOWED_SORTING_FIELDS of the customers (the fields the model's rows
\* carry)
ALLOWED_CUSTOMER_FIELDS == {"id"}

list_customers(db, params) ==
    paginate_filter_sort([ c \in db.customers |-> [ id |-> c ] ],
                         ALLOWED_CUSTOMER_FIELDS, params)

\* ------------------------------------------------------------------------
\* orders/service.py: writing
\* ------------------------------------------------------------------------
\* what a service call hands back: the store to commit and the response
\* wrote lists the write statements the session had sent to the store when
\* an exception ended the call; it is empty for a call that returns.
Ok(db, body)     == [ db |-> db, code |-> "ok", body |-> body,
                      wrote |-> << >> ]
\* `return None` / `return False` before any write
Missing(db)      == [ db |-> db, code |-> "not_found", body |-> NotFound,
                      wrote |-> << >> ]
\* an exception raised before the session has written anything
Raise(db, exc, what) == [ db |-> db, code |-> exc, body |-> what,
                          wrote |-> << >> ]
\* an exception raised after the session has sent the writes of wrote
RaiseAfter(db, exc, what, wrote) ==
    [ db |-> db, code |-> exc, body |-> what, wrote |-> wrote ]

\* Rollback that keeps what the session wrote
Rollback_Keep(db, dirty) == dirty

\* an exception leaves the `async with db_session()` block without commit:
\* the session is closed and what it wrote (dirty) is rolled back to the
\* committed store (db)
Rollback(db, dirty) == db

\* AggEntry with `quantity = it.quantity` in place of `quantity += it.quantity`
AggEntry_Overwrite(agg, it) ==
    LET pid == it.product_id
        cur == [ quantity   |-> it.quantity,
                 unit_price |-> IF it.unit_price # None THEN it.unit_price
                                ELSE None ]
    IN  [ keys |-> IF pid \in DOMAIN agg.data THEN agg.keys
                   ELSE Append(agg.keys, pid),
          data |-> (pid :> cur) @@ agg.data ]

\* one pass of the `for it in payload.items` loop: agg.keys is the dict's
\* insertion order, agg.data the dict
AggEntry(agg, it) ==
    LET pid  == it.product_id
        prev == IF pid \in DOMAIN agg.data THEN agg.data[pid]
                ELSE [ quantity |-> 0, unit_price |-> None ]
        cur  == [ quantity   |-> prev.quantity + it.quantity,
                  unit_price |-> IF it.unit_price # None THEN it.unit_price
                                 ELSE None ]
    IN  [ keys |-> IF pid \in DOMAIN agg.data THEN agg.keys
                   ELSE Append(agg.keys, pid),
          data |-> (pid :> cur) @@ agg.data ]

RECURSIVE AggregateFrom(_, _)
AggregateFrom(agg, lines) ==
    IF lines = << >> THEN agg
    ELSE AggregateFrom(AggEntry(agg, Head(lines)), Tail(lines))

\* Aggregate that builds one row per submitted entry instead of one per
\* product
Aggregate_PerEntry(lines) ==
    LET agg == AggregateFrom([ keys |-> << >>, data |-> << >> ], lines)
    IN  [ keys |-> [ k \in DOMAIN lines |-> lines[k].product_id ],
          data |-> agg.data ]

\* "Aggregate quantities by product_id"
Aggregate(lines) == AggregateFrom([ keys |-> << >>, data |-> << >> ], lines)

\* the position of the first product of keys that is looked up (is in
\* needed) and that the products table does not have, 0 when there is none
FirstMissingProduct(db, keys, needed) ==
    LET bad == { k \in DOMAIN keys :
                    keys[k] \in needed /\ keys[k] \notin DOMAIN db.products }
    IN  IF bad = {} THEN 0 ELSE CHOOSE k \in bad : \A j \in bad : k <= j

\* create_order: snapshot price of one aggregated entry
CreatePrice(db, pid, data) ==
    IF data.unit_price = None THEN db.products[pid] ELSE data.unit_price

create_order(db, payload) ==
    IF payload.customer_id \notin db.customers
    THEN Raise(db, "ValueError", "Customer not found")
    ELSE
    LET agg  == Aggregate(payload.items)
        miss == FirstMissingProduct(db, agg.keys, Range(agg.keys))
        oid  == db.next_id.orders
        base == db.next_id.items
        rows == [ i \in { base + k - 1 : k \in DOMAIN agg.keys } |->
                    LET pid == agg.keys[i - base + 1]
                    IN  [ order_id   |-> oid,
                          product_id |-> pid,
                          quantity   |-> agg.data[pid].quantity,
                          unit_price |-> CreatePrice(db, pid, agg.data[pid]),
                          lot_id     |-> None ] ]
        post == [ db EXCEPT
                    !.orders  = (oid :> [ customer_id      |-> payload.customer_id,
                                          delivery_date    |-> payload.delivery_date,
                                          applied_discount |-> payload.applied_discount,
                                          status           |-> "created" ]) @@ @,
                    !.items   = rows @@ @,
                    !.next_id = [ @ EXCEPT !.orders = oid + 1,
                                           !.items  = base + Len(agg.keys) ] ]
    IN  IF miss # 0 THEN Raise(db, "ValueError", "Product not found")
        ELSE Ok(post, get_order_by_id(post, oid))

\* ReplacePrice that never looks at the previous rows
ReplacePrice_Live(existing_items, pid, data) == data.unit_price

\* update_order: price of one aggregated entry of the replacement list;
\* None when the live product price is needed
ReplacePrice(existing_items, pid, data) ==
    IF data.unit_price = None
    THEN IF pid \in DOMAIN existing_items THEN existing_items[pid] ELSE None
    ELSE data.unit_price

\* SetScalars that never stores the status
SetScalars_KeepStatus(o0, payload) ==
    [ o0 EXCEPT
        !.delivery_date    = IF payload.delivery_date # None
                             THEN payload.delivery_date ELSE @,
        !.applied_discount = IF payload.applied_discount # None
                             THEN payload.applied_discount ELSE @ ]

\* update_order: the scalar fields it assigns on the order row, each only
\* when the payload carries it; payload.customer_id is never read
SetScalars(o0, payload) ==
    [ o0 EXCEPT
        !.delivery_date    = IF payload.delivery_date # None
                             THEN payload.delivery_date ELSE @,
        !.status           = IF payload.status # NoStatus
                             THEN payload.status ELSE @,
        !.applied_discount = IF payload.applied_discount # None
                             THEN payload.applied_discount ELSE @ ]

\* ReplaceRows without the DELETE: the new rows join the old ones
ReplaceRows_Merge(its, old, rows) == rows @@ its

\* ReplaceRows under which the row of a product the order already had stays
\* in the lot of the row it replaces
ReplaceRows_KeepLot(its, old, rows) ==
    [ i \in DOMAIN rows |->
        LET prev == { j \in old : its[j].product_id = rows[i].product_id }
        IN  IF prev = {} THEN rows[i]
            ELSE [ rows[i] EXCEPT
                     !.lot_id = its[CHOOSE j \in prev : TRUE].lot_id ] ]
      @@ Without(its, old)

\* update_order: DELETE the order's rows, then add the rebuilt ones
ReplaceRows(its, old, rows) == rows @@ Without(its, old)

update_order(db, order_id, payload) ==
    IF order_id \notin DOMAIN db.orders THEN Missing(db)
    ELSE
    LET o0   == db.orders[order_id]
        o2   == SetScalars(o0, payload)
        old  == ItemsOf(db, order_id)
        existing_items ==
                [ pid \in { db.items[i].product_id : i \in old } |->
                    LET i == CHOOSE j \in old : db.items[j].product_id = pid
                    IN  db.items[i].unit_price ]
        agg  == Aggregate(payload.items)
        miss == FirstMissingProduct(db, agg.keys,
                    { pid \in Range(agg.keys) :
                        ReplacePrice(existing_items, pid, agg.data[pid])
                            = None })
        base == db.next_id.items
        rows == [ i \in { base + k - 1 : k \in DOMAIN agg.keys } |->
                    LET pid == agg.keys[i - base + 1]
                        p   == ReplacePrice(existing_items, pid, agg.data[pid])
                    IN  [ order_id   |-> order_id,
                          product_id |-> pid,
                          quantity   |-> agg.data[pid].quantity,
                          unit_price |-> IF p = None THEN db.products[pid]
                                         ELSE p,
                          lot_id     |-> None ] ]
        post == IF payload.has_items
                THEN [ db EXCEPT
                         !.orders  = [ @ EXCEPT ![order_id] = o2 ],
                         !.items   = ReplaceRows(@, old, rows),
                         !.next_id = [ @ EXCEPT
                                         !.items = base + Len(agg.keys) ] ]
                ELSE [ db EXCEPT !.orders = [ @ EXCEPT ![order_id] = o2 ] ]
        \* the session once the DELETE has run
        deleted == [ db EXCEPT !.items = Without(@, old) ]
    IN  IF payload.has_items /\ miss # 0
        \* the products are looked up after the DELETE
        THEN RaiseAfter(Rollback(db, deleted), "ValueError",
                        "Product not found", << "DELETE order_items" >>)
        ELSE IF payload.has_items
                /\ \E k \in DOMAIN agg.keys : agg.keys[k] \notin DOMAIN db.products
        \* a row priced explicitly is not looked up: the foreign key
        \* order_items.product_id rejects it at commit
        THEN RaiseAfter(Rollback(db, deleted), "IntegrityError",
                        "order_items.product_id",
                        << "DELETE order_items", "INSERT order_items" >>)
        ELSE Ok(post, get_order_by_id(post, order_id))

\* delete_order that leaves the items of the order in the store
delete_order_KeepItems(db, order_id) ==
    IF order_id \notin DOMAIN db.orders THEN Missing(db)
    ELSE Ok([ db EXCEPT !.orders = Without(@, {order_id}) ], TRUE)

\* delete_order: the order row goes, and ON DELETE CASCADE removes its items
delete_order(db, order_id) ==
    IF order_id \notin DOMAIN db.orders THEN Missing(db)
    ELSE Ok([ db EXCEPT !.orders = Without(@, {order_id}),
                        !.items  = Without(@, ItemsOf(db, order_id)) ],
            TRUE)

\* ------------------------------------------------------------------------
\* products and customers (service.py and router.py of each)
\* ------------------------------------------------------------------------
create_product(db, unit_price) ==
    LET pid == db.next_id.products
    IN  Ok([ db EXCEPT !.products = (pid :> unit_price) @@ @,
                       !.next_id  = [ @ EXCEPT !.products = pid + 1 ] ],
           pid)

\* update_product that also rewrites the price of the items sold
update_product_Reprice(db, product_id, unit_price) ==
    IF product_id \notin DOMAIN db.products THEN Missing(db)
    ELSE Ok([ db EXCEPT
                !.products = [ @ EXCEPT ![product_id] = unit_price ],
                !.items    = [ i \in DOMAIN @ |->
                                 IF @[i].product_id = product_id
                                 THEN [ @[i] EXCEPT !.unit_price = unit_price ]
                                 ELSE @[i] ] ],
            product_id)

\* update_product: every field of the payload that is not None is set
update_product(db, product_id, unit_price) ==
    IF product_id \notin DOMAIN db.products THEN Missing(db)
    ELSE Ok([ db EXCEPT !.products =
                 [ @ EXCEPT ![product_id] = IF unit_price # None
                                            THEN unit_price ELSE @ ] ],
            product_id)

\* product_has_orders that finds no reference
product_has_orders_Never(db, product_id) == FALSE

product_has_orders(db, product_id) ==
    Cardinality({ i \in DOMAIN db.items :
                     db.items[i].product_id = product_id }) > 0

\* delete_product (service): order_items.product_id is NOT NULL with
\* ON DELETE RESTRICT, so the store refuses the delete of a referenced row
delete_product(db, product_id) ==
    IF product_id \notin DOMAIN db.products THEN Missing(db)
    ELSE IF \E i \in DOMAIN db.items : db.items[i].product_id = product_id
    THEN Raise(db, "IntegrityError", "order_items.product_id")
    ELSE Ok([ db EXCEPT !.products = Without(@, {product_id}) ], TRUE)

\* DELETE /products/{id}: the reference check, then the delete
delete_product_route(db, product_id) ==
    IF product_has_orders(db, product_id)
    THEN Raise(db, "409", "referenced")
    ELSE LET r == delete_product(db, product_id)
         IN  IF r.code = "not_found" THEN Raise(db, "404", "not found")
             ELSE r

create_customer(db) ==
    LET cid == db.next_id.customers
    IN  Ok([ db EXCEPT !.customers = @ \cup {cid},
                       !.next_id   = [ @ EXCEPT !.customers = cid + 1 ] ],
           cid)

customer_has_orders(db, customer_id) ==
    Cardinality({ o \in DOMAIN db.orders :
                     db.orders[o].customer_id = customer_id }) > 0

\* delete_customer (service): orders.customer_id is ON DELETE RESTRICT and
\* the relationship is passive_deletes
delete_customer(db, customer_id) ==
    IF customer_id \notin db.customers THEN Missing(db)
    ELSE IF \E o \in DOMAIN db.orders : db.orders[o].customer_id = customer_id
    THEN Raise(db, "IntegrityError", "orders.customer_id")
    ELSE Ok([ db EXCEPT !.customers = @ \ {customer_id} ], TRUE)

\* DELETE /customers/{id}
delete_customer_route(db, customer_id) ==
    IF customer_has_orders(db, customer_id)
    THEN Raise(db, "409", "referenced")
    ELSE LET r == delete_customer(db, customer_id)
         IN  IF r.code = "not_found" THEN Raise(db, "404", "not found")
             ELSE r

\* ------------------------------------------------------------------------
\* expenses and incomes (service.py and router.py of each)
\* ------------------------------------------------------------------------
create_expense_category(db) ==
    LET cid == db.next_id.expenses_categories
    IN  Ok([ db EXCEPT !.expenses_categories = @ \cup {cid},
                       !.next_id = [ @ EXCEPT !.expenses_categories = cid + 1 ] ],
           cid)

create_expense(db, payload) ==
    IF payload.category_id \notin db.expenses_categories
    THEN Raise(db, "ValueError", "Category not found")
    ELSE LET eid == db.next_id.expenses
         IN  Ok([ db EXCEPT !.expenses = (eid :> payload) @@ @,
                            !.next_id  = [ @ EXCEPT !.expenses = eid + 1 ] ],
                eid)

category_has_expenses(db, category_id) ==
    Cardinality({ e \in DOMAIN db.expenses :
                     db.expenses[e].category_id = category_id }) > 0

\* delete_expense_category (service): expenses.category_id is a NOT NULL
\* foreign key
delete_expense_category(db, category_id) ==
    IF category_id \notin db.expenses_categories THEN Missing(db)
    ELSE IF \E e \in DOMAIN db.expenses :
                db.expenses[e].category_id = category_id
    THEN Raise(db, "IntegrityError", "expenses.category_id")
    ELSE Ok([ db EXCEPT !.expenses_categories = @ \ {category_id} ], TRUE)

\* DELETE /expenses/categories/{id}
delete_expense_category_route(db, category_id) ==
    IF category_has_expenses(db, category_id)
    THEN Raise(db, "409", "referenced")
    ELSE LET r == delete_expense_category(db, category_id)
         IN  IF r.code = "not_found" THEN Raise(db, "404", "not found")
             ELSE r

create_income_category(db) ==
    LET cid == db.next_id.incomes_categories
    IN  Ok([ db EXCEPT !.incomes_categories = @ \cup {cid},
                       !.next_id = [ @ EXCEPT !.incomes_categories = cid + 1 ] ],
           cid)

create_income(db, payload) ==
    IF payload.category_id \notin db.incomes_categories
    THEN Raise(db, "ValueError", "Category not found")
    ELSE LET iid == db.next_id.incomes
         IN  Ok([ db EXCEPT !.incomes = (iid :> payload) @@ @,
                            !.next_id = [ @ EXCEPT !.incomes = iid + 1 ] ],
                iid)

category_has_incomes(db, category_id) ==
    Cardinality({ e \in DOMAIN db.incomes :
                     db.incomes[e].category_id = category_id }) > 0

delete_income_category(db, category_id) ==
    IF category_id \notin db.incomes_categories THEN Missing(db)
    ELSE IF \E e \in DOMAIN db.incomes :
                db.incomes[e].category_id = category_id
    THEN Raise(db, "IntegrityError", "incomes.category_id")
    ELSE Ok([ db EXCEPT !.incomes_categories = @ \ {category_id} ], TRUE)

\* DELETE /incomes/categories/{id}
delete_income_category_route(db, category_id) ==
    IF category_has_incomes(db, category_id)
    THEN Raise(db, "409", "referenced")
    ELSE LET r == delete_income_category(db, category_id)
         IN  IF r.code = "not_found" THEN Raise(db, "404", "not found")
             ELSE r

\* ------------------------------------------------------------------------
\* lots/service.py
\* ------------------------------------------------------------------------
\* Text is a sequence of characters; the eight digits of one date are one
\* symbol.
RECURSIVE LStrip(_)
LStrip(s) == IF s # << >> /\ Head(s) = " " THEN LStrip(Tail(s)) ELSE s

RECURSIVE RStrip(_)
RStrip(s) ==
    IF s # << >> /\ s[Len(s)] = " " THEN RStrip(SubSeq(s, 1, Len(s) - 1))
    ELSE s

\* str.strip()
Strip(s) == RStrip(LStrip(s))

\* lot_date.strftime("%Y%m%d")
DateText(d) == << ToString(d) >>

\* _compose_lot_name without the final .strip()
_compose_lot_name_Untrimmed(lot_date, location) ==
    DateText(lot_date) \o <<" ">> \o Strip(location)

_compose_lot_name(lot_date, location) ==
    LET clean_location == Strip(location)
        base           == DateText(lot_date)
    IN  Strip(base \o <<" ">> \o clean_location)

LotItems(db, lot_id) ==
    { i \in DOMAIN db.items : db.items[i].lot_id = lot_id }

\* DetachLot that leaves the lot's rows attached
DetachLot_Skip(its, lot_id) == its

\* DetachLot without its WHERE clause: every row is detached
DetachLot_All(its, lot_id) ==
    [ i \in DOMAIN its |-> [ its[i] EXCEPT !.lot_id = None ] ]

\* the first UPDATE of _apply_lot_associations: detach what the lot holds
\* DetachLot that releases one row of the lot, the lowest id, per call
DetachLot_One(its, lot_id) ==
    LET held == { i \in DOMAIN its : its[i].lot_id = lot_id }
    IN  [ i \in DOMAIN its |->
            IF held # {} /\ \A j \in held : i <= j
            THEN [ its[i] EXCEPT !.lot_id = None ] ELSE its[i] ]

DetachLot(its, lot_id) ==
    [ i \in DOMAIN its |->
        IF its[i].lot_id = lot_id THEN [ its[i] EXCEPT !.lot_id = None ]
        ELSE its[i] ]

\* the second UPDATE: attach the target rows
AttachLot(its, lot_id, target_item_ids) ==
    [ i \in DOMAIN its |->
        IF i \in target_item_ids THEN [ its[i] EXCEPT !.lot_id = lot_id ]
        ELSE its[i] ]

\* FoundIds without `.where(OrderItemORM.order_id == order_id)`
FoundIds_AnyOrder(db, order_id, explicit_ids) ==
    explicit_ids \cap DOMAIN db.items

\* the ids items_stmt returns: the requested rows that exist, of the order
\* when one is given
FoundIds(db, order_id, explicit_ids) ==
    { i \in explicit_ids :
        /\ i \in DOMAIN db.items
        /\ order_id # None => db.items[i].order_id = order_id }

\* _apply_lot_associations, run inside the caller's session; has_ids tells
\* whether order_item_ids is given (an empty list is given)
_apply_lot_associations(db, lot_id, order_id, has_ids, order_item_ids) ==
    IF order_id # None /\ order_id \notin DOMAIN db.orders
    THEN Raise(db, "ValueError", [ order |-> order_id, items |-> {} ])
    ELSE
    LET explicit_ids == order_item_ids
        found_ids    == FoundIds(db, order_id, explicit_ids)
        missing      == explicit_ids \ found_ids
        target_item_ids ==
            IF has_ids THEN found_ids
            ELSE IF order_id # None THEN ItemsOf(db, order_id)
            ELSE {}
        detached     == DetachLot(db.items, lot_id)
    IN  IF has_ids /\ missing # {}
        THEN Raise(db, "ValueError", [ order |-> None, items |-> missing ])
        ELSE IF ~has_ids /\ order_id = None THEN Ok(db, {})
        ELSE IF target_item_ids = {}
             THEN Ok([ db EXCEPT !.items = detached ], {})
        ELSE Ok([ db EXCEPT !.items =
                     AttachLot(detached, lot_id, target_item_ids) ],
                target_item_ids)

\* lots.name is UNIQUE
NameTaken(db, name, but) ==
    \E l \in (DOMAIN db.lots) \ {but} : db.lots[l].name = name

\* what a raise leaves behind after session.flush() has inserted the lot:
\* the rollback removes the row, InnoDB does not hand the id out again
BurnLotId(db) ==
    [ db EXCEPT !.next_id = [ @ EXCEPT !.lots = @ + 1 ] ]

get_lot_by_id(db, lot_id) ==
    IF lot_id \notin DOMAIN db.lots THEN NotFound
    ELSE [ found       |-> TRUE,
           id          |-> lot_id,
           lot_date    |-> db.lots[lot_id].lot_date,
           name        |-> db.lots[lot_id].name,
           order_items |-> LotItems(db, lot_id) ]

create_lot(db, payload) ==
    LET clean_location == Strip(payload.location)
        expected_name  == _compose_lot_name(payload.lot_date, clean_location)
        provided_name  == Strip(payload.name)
        final_name     == IF provided_name # expected_name THEN expected_name
                          ELSE provided_name
        lid     == db.next_id.lots
        flushed == [ db EXCEPT
                       !.lots    = (lid :> [ lot_date |-> payload.lot_date,
                                             name     |-> final_name,
                                             location |-> clean_location ]) @@ @,
                       !.next_id = [ @ EXCEPT !.lots = lid + 1 ] ]
        assoc   == _apply_lot_associations(flushed, lid, payload.order_id,
                       payload.has_ids, payload.order_item_ids)
    IN  IF NameTaken(db, final_name, lid)
        THEN RaiseAfter(BurnLotId(db), "IntegrityError", "lots.name",
                        << "INSERT lots" >>)
        ELSE IF assoc.code # "ok"
        \* the lot was inserted by session.flush() before the associations
        \* were looked at
        THEN RaiseAfter(BurnLotId(Rollback(db, flushed)), assoc.code,
                        assoc.body, << "INSERT lots" >>)
        ELSE Ok(assoc.db, get_lot_by_id(assoc.db, lid))

\* update_lot that releases the lot's items whatever the payload holds
update_lot_Detach(db, lot_id, payload) ==
    IF lot_id \notin DOMAIN db.lots THEN Missing(db)
    ELSE LET detached == [ db EXCEPT !.items = DetachLot(@, lot_id) ]
         IN  Ok(detached, get_lot_by_id(detached, lot_id))

update_lot(db, lot_id, payload) ==
    IF lot_id \notin DOMAIN db.lots THEN Missing(db)
    ELSE
    LET l0 == db.lots[lot_id]
        l1 == [ l0 EXCEPT
                  !.lot_date = IF payload.lot_date # None
                               THEN payload.lot_date ELSE @,
                  !.name     = IF payload.has_name THEN Strip(payload.name)
                               ELSE @,
                  !.location = IF payload.has_location
                               THEN Strip(payload.location) ELSE @ ]
        expected_name == _compose_lot_name(l1.lot_date, l1.location)
        l2 == [ l1 EXCEPT
                  !.name = IF ~payload.has_name \/ l1.name # expected_name
                           THEN expected_name ELSE @ ]
        named == [ db EXCEPT !.lots = [ @ EXCEPT ![lot_id] = l2 ] ]
        assoc == IF payload.has_ids \/ payload.order_id # None
                 THEN _apply_lot_associations(named, lot_id, payload.order_id,
                          payload.has_ids, payload.order_item_ids)
                 ELSE Ok(named, {})
        \* the UPDATEs of order_items the associations have sent
        sent  == IF ~(payload.has_ids \/ payload.order_id # None) THEN << >>
                 ELSE IF assoc.body = {} THEN << "UPDATE order_items" >>
                 ELSE << "UPDATE order_items", "UPDATE order_items" >>
    IN  \* the lot's new fields are still unflushed when the associations
        \* are looked at
        IF assoc.code # "ok" THEN Raise(Rollback(db, named), assoc.code,
                                        assoc.body)
        ELSE IF NameTaken(db, l2.name, lot_id)
        THEN RaiseAfter(Rollback(db, assoc.db), "IntegrityError",
                        "lots.name", sent \o << "UPDATE lots" >>)
        ELSE Ok(assoc.db, get_lot_by_id(assoc.db, lot_id))

\* delete_lot that deletes the lot's items with the lot
delete_lot_Cascade(db, lot_id) ==
    IF lot_id \notin DOMAIN db.lots THEN Missing(db)
    ELSE Ok([ db EXCEPT !.items = Without(@, LotItems(db, lot_id)),
                        !.lots  = Without(@, {lot_id}) ],
            TRUE)

\* delete_lot: detach the items, then delete the lot row
delete_lot(db, lot_id) ==
    IF lot_id \notin DOMAIN db.lots THEN Missing(db)
    ELSE Ok([ db EXCEPT !.items = DetachLot(@, lot_id),
                        !.lots  = Without(@, {lot_id}) ],
            TRUE)

\* ------------------------------------------------------------------------
\* reports/service.py: cashflow
\* ------------------------------------------------------------------------
\* `col.between(start_date, end_date)`
Between(d, payload) == payload.start_date <= d /\ d <= payload.end_date

\* sum(quantity * unit_price * (1 - applied_discount / 100)) of one order,
\* unrounded, in hundredths of a cent
EntryAmount(db, order_id) ==
    LET its == ItemsOf(db, order_id)
    IN  SumOver(its, [ i \in its |->
            db.items[i].quantity * db.items[i].unit_price
                * (100 - db.orders[order_id].applied_discount) ])

\* CashEntryIds without `.where(OrderORM.status == "delivered")`
CashEntryIds_AnyStatus(db, payload) ==
    { o \in DOMAIN db.orders :
        /\ ItemsOf(db, o) # {}
        /\ Between(db.orders[o].delivery_date, payload) }

\* the orders of entries_stmt: joined to their items, delivered in the window
CashEntryIds(db, payload) ==
    { o \in DOMAIN db.orders :
        /\ ItemsOf(db, o) # {}
        /\ Between(db.orders[o].delivery_date, payload)
        /\ db.orders[o].status = "delivered" }

report_cashflow(db, payload) ==
    LET entry_ids == CashEntryIds(db, payload)
        entries   == [ o \in entry_ids |-> EntryAmount(db, o) ]
        income_ids == IF payload.include_incomes
                      THEN { i \in DOMAIN db.incomes :
                                Between(db.incomes[i].timestamp, payload) }
                      ELSE {}
        expense_ids == { e \in DOMAIN db.expenses :
                            Between(db.expenses[e].timestamp, payload) }
        entries_total  == SumOver(entry_ids, entries)
                          + SumOver(income_ids,
                                [ i \in income_ids |-> 100 * db.incomes[i].amount ])
        expenses_total == SumOver(expense_ids,
                                [ e \in expense_ids |-> 100 * db.expenses[e].amount ])
        net == entries_total - expenses_total
    IN  [ entries_total  |-> Round2(entries_total),
          expenses_total |-> Round2(expenses_total),
          net            |-> Round2(net),
          entries        |-> entries,
          expenses       |-> expense_ids,
          incomes        |-> income_ids ]

\* SalesLines without `OrderORM.customer_id == payload.customer_id`
SalesLines_AnyCustomer(db, payload) ==
    { i \in DOMAIN db.items :
        Between(db.orders[db.items[i].order_id].delivery_date, payload) }

\* the order lines both statements of report_customer_sales range over: the
\* items joined to their order, of the customer, delivered in the window
SalesLines(db, payload) ==
    { i \in DOMAIN db.items :
        LET o == db.orders[db.items[i].order_id]
        IN  /\ o.customer_id = payload.customer_id
            /\ Between(o.delivery_date, payload) }

\* quantity * unit_price * (1 - applied_discount / 100) of one line, in
\* hundredths of a cent
LineRevenue(db, i) ==
    db.items[i].quantity * db.items[i].unit_price
        * (100 - db.orders[db.items[i].order_id].applied_discount)

\* report_customer_sales: per_product groups the lines by product (joined
\* to products), total_stmt sums them all; each figure is rounded on its
\* own.  avg_discount, names and units are left out.
report_customer_sales(db, payload) ==
    LET lines    == SalesLines(db, payload)
        sold     == { db.items[i].product_id : i \in lines }
                       \cap DOMAIN db.products
        of(pid)  == { i \in lines : db.items[i].product_id = pid }
        total    == SumOver(lines, [ i \in lines |-> LineRevenue(db, i) ])
    IN  [ customer_id   |-> payload.customer_id,
          total_revenue |-> Round2(total),
          per_product   |->
              [ pid \in sold |->
                  [ total_qty |-> SumOver(of(pid),
                                     [ i \in of(pid) |-> db.items[i].quantity ]),
                    revenue   |-> Round2(SumOver(of(pid),
                                     [ i \in of(pid) |-> LineRevenue(db, i) ])) ] ] ]

RECURSIVE Ascending(_)
\* the ids of S in ascending order: ORDER BY id ASC
Ascending(S) ==
    IF S = {} THEN << >>
    ELSE LET m == CHOOSE x \in S : \A y \in S : x <= y
         IN  << m >> \o Ascending(S \ {m})

\* CategoryRows with an inner join: a category appears through its records
CategoryRows_InnerJoin(categories, table, payload) ==
    LET wanted == IF payload.category_ids # {}
                  THEN categories \cap payload.category_ids ELSE categories
        joined(c) == { e \in DOMAIN table :
                         /\ table[e].category_id = c
                         /\ Between(table[e].timestamp, payload) }
        ids    == Ascending({ c \in wanted : joined(c) # {} })
    IN  [ k \in DOMAIN ids |->
            [ category_id |-> ids[k],
              amount      |-> Round2(100 * SumOver(joined(ids[k]),
                                 [ e \in joined(ids[k]) |-> table[e].amount ])),
              count       |-> Cardinality(joined(ids[k])) ] ]

\* the statement of both category reports: the categories LEFT OUTER JOINed
\* to their records dated in the window, grouped by category, ordered by
\* id; category_ids, when not empty, restricts the categories.  amount is
\* in cents.
CategoryRows(categories, table, payload) ==
    LET wanted == IF payload.category_ids # {}
                  THEN categories \cap payload.category_ids ELSE categories
        joined(c) == { e \in DOMAIN table :
                         /\ table[e].category_id = c
                         /\ Between(table[e].timestamp, payload) }
        ids    == Ascending(wanted)
    IN  [ k \in DOMAIN ids |->
            [ category_id |-> ids[k],
              amount      |-> Round2(100 * SumOver(joined(ids[k]),
                                 [ e \in joined(ids[k]) |-> table[e].amount ])),
              count       |-> Cardinality(joined(ids[k])) ] ]

report_expenses_categories(db, payload) ==
    CategoryRows(db.expenses_categories, db.expenses, payload)

report_income_categories(db, payload) ==
    CategoryRows(db.incomes_categories, db.incomes, payload)

\* ------------------------------------------------------------------------
\* Requests
\* ------------------------------------------------------------------------
CustomerIds == 1 .. MaxCustomers
ProductIds  == 1 .. MaxProducts
OrderIds    == 1 .. MaxOrders
ItemIds     == 1 .. MaxItemRows
LotIds      == 1 .. MaxLots

\* sequences over S of length at most n
SeqUpTo(S, n) == UNION { [ 1 .. k -> S ] : k \in 0 .. n }

\* OrderItemCreate
Line(product_id, quantity, unit_price) ==
    [ product_id |-> product_id, quantity |-> quantity,
      unit_price |-> unit_price ]

\* entries without an explicit price
PlainLines == { Line(1, 1, None), Line(1, 2, None) }
                 \cup { Line(p, 1, None) : p \in ProductIds \ {1} }

\* the same with an entry that carries its own price
PricedLines == PlainLines \cup { Line(1, 1, Explicit) }

\* OrderCreate
OrderCreates(dates, discounts, lines) ==
    [ customer_id      : CustomerIds,
      delivery_date    : dates,
      applied_discount : discounts,
      items            : SeqUpTo(lines, MaxLines) ]

\* OrderUpdate with every field but items left out
NoUpdate ==
    [ delivery_date |-> None, status |-> NoStatus, customer_id |-> None,
      applied_discount |-> None, has_items |-> FALSE, items |-> << >> ]

\* OrderUpdate that replaces the items
ItemUpdates(optDiscounts, lines) ==
    { [ NoUpdate EXCEPT !.has_items = TRUE, !.items = its,
                        !.applied_discount = d ] :
        its \in SeqUpTo(lines, MaxLines), d \in optDiscounts }

\* OrderUpdate of the scalar fields
FieldUpdates(optDates, optStatuses, optDiscounts) ==
    { [ NoUpdate EXCEPT !.delivery_date = dt, !.status = st,
                        !.applied_discount = d, !.customer_id = c ] :
        dt \in optDates, st \in optStatuses, d \in optDiscounts,
        c \in {None} \cup CustomerIds }

\* ------------------------------------------------------------------------
\* Actions: one request, served whole
\* ------------------------------------------------------------------------
\* commit r.db and record the request and its response
Commit(op, id, req, pre, r) ==
    /\ customers' = r.db.customers
    /\ products' = r.db.products
    /\ orders' = r.db.orders
    /\ items' = r.db.items
    /\ lots' = r.db.lots
    /\ expenses_categories' = r.db.expenses_categories
    /\ expenses' = r.db.expenses
    /\ incomes_categories' = r.db.incomes_categories
    /\ incomes' = r.db.incomes
    /\ next_id' = r.db.next_id
    /\ last' = [ op |-> op, id |-> id, req |-> req, pre |-> pre,
                 code |-> r.code, body |-> r.body, wrote |-> r.wrote ]

\* a request served in one step
Serve(op, id, req, pre, r) ==
    /\ Commit(op, id, req, pre, r)
    /\ UNCHANGED sessions

\* a read: the store stays, the response is recorded
Answer(op, id, req, body) ==
    Serve(op, id, req, << >>, Ok(DB, body))

CreateCustomer ==
    /\ next_id.customers <= MaxCustomers
    /\ Serve("create_customer", None, << >>, << >>, create_customer(DB))

\* create_customer while the store has handed out fewer than MaxFirst
\* customer ids
CreateFirstCustomer ==
    /\ next_id.customers <= MaxFirst
    /\ CreateCustomer

CreateProduct ==
    /\ next_id.products <= MaxProducts
    /\ \E unit_price \in Prices :
          Serve("create_product", None, unit_price, << >>,
                create_product(DB, unit_price))

UpdateProduct ==
    \E product_id \in ProductIds, unit_price \in Prices :
        Serve("update_product", product_id, unit_price, << >>,
              update_product(DB, product_id, unit_price))

CreateOrder(payloads) ==
    \E payload \in payloads :
        /\ next_id.orders <= MaxOrders
        /\ next_id.items + Len(Aggregate(payload.items).keys) - 1 <= MaxItemRows
        /\ Serve("create_order", next_id.orders, payload, << >>,
                 create_order(DB, payload))

\* create_order while the store has handed out fewer than MaxFirst order ids
CreateFirstOrder(payloads) ==
    /\ next_id.orders <= MaxFirst
    /\ CreateOrder(payloads)

\* the `existing_items` dict update_order builds before it deletes
ExistingItems(order_id) ==
    [ pid \in { items[i].product_id : i \in ItemsOf(DB, order_id) } |->
        LET i == CHOOSE j \in ItemsOf(DB, order_id) : items[j].product_id = pid
        IN  items[i].unit_price ]

UpdateOrder(payloads) ==
    \E order_id \in OrderIds, payload \in payloads :
        /\ payload.has_items =>
              next_id.items + Len(Aggregate(payload.items).keys) - 1
                 <= MaxItemRows
        /\ Serve("update_order", order_id, payload, ExistingItems(order_id),
                 update_order(DB, order_id, payload))

DeleteOrder ==
    \E order_id \in OrderIds :
        Serve("delete_order", order_id, << >>, << >>,
              delete_order(DB, order_id))

GetOrder ==
    \E order_id \in OrderIds :
        Answer("get_order_by_id", order_id, << >>,
               get_order_by_id(DB, order_id))

ListOrders(paramsSet) ==
    \E params \in paramsSet :
        Answer("list_orders", None, params, list_orders(DB, params))

\* ------------------------------------------------------------------------
\* Specification: the order lifecycle (pricing, aggregation, totals)
\* ------------------------------------------------------------------------
\* the callers whose update_order is followed statement by statement
Callers == {1, 2}

\* no db_session() open
NoSession ==
    [ pc |-> "idle", items |-> << >>, existing_items |-> << >>,
      locked |-> {}, deleted |-> {}, new_rows |-> << >>, inserted |-> << >> ]

NoLast == [ op |-> "init", id |-> None, req |-> << >>, pre |-> << >>,
            code |-> "ok", body |-> << >>, wrote |-> << >> ]

Init ==
    /\ customers = {}
    /\ products = << >>
    /\ orders = << >>
    /\ items = << >>
    /\ lots = << >>
    /\ expenses_categories = {}
    /\ expenses = << >>
    /\ incomes_categories = {}
    /\ incomes = << >>
    /\ next_id = [ customers |-> 1, products |-> 1, orders |-> 1, items |-> 1,
                   lots |-> 1, expenses_categories |-> 1, expenses |-> 1,
                   incomes_categories |-> 1, incomes |-> 1 ]
    /\ last = NoLast
    /\ sessions = [ c \in Callers |-> NoSession ]

\* page/size requests of the orders listing, unfiltered and unsorted
PageParams ==
    [ page : {1, 2}, size : {-1, 0, 1, 2}, filters : { << >> },
      sort : { << >> } ]

Next ==
    \/ CreateFirstCustomer
    \/ CreateProduct
    \/ UpdateProduct
    \/ CreateFirstOrder(OrderCreates({1}, Discounts, PricedLines))
    \/ UpdateOrder(ItemUpdates({None}, PricedLines))
    \/ DeleteOrder
    \/ GetOrder
    \/ ListOrders(PageParams)

Spec == Init /\ [][Next]_vars

\* ------------------------------------------------------------------------
\* Specification: lots and their order items
\* ------------------------------------------------------------------------
\* LotCreate: the association fields over every order id and every set of
\* item ids
LotCreates(dates, locations) ==
    [ lot_date : dates, name : { <<"n">> }, location : locations,
      order_id : {None} \cup OrderIds, has_ids : {TRUE},
      order_item_ids : SUBSET ItemIds ]
    \cup
    [ lot_date : dates, name : { <<"n">> }, location : locations,
      order_id : {None} \cup OrderIds, has_ids : {FALSE},
      order_item_ids : { {} } ]

\* LotUpdate that leaves date, name and location out
LotAssociations ==
    [ lot_date : {None}, has_name : {FALSE}, name : { << >> },
      has_location : {FALSE}, location : { << >> },
      order_id : {None} \cup OrderIds, has_ids : {TRUE},
      order_item_ids : SUBSET ItemIds ]
    \cup
    [ lot_date : {None}, has_name : {FALSE}, name : { << >> },
      has_location : {FALSE}, location : { << >> },
      order_id : {None} \cup OrderIds, has_ids : {FALSE},
      order_item_ids : { {} } ]

\* LotUpdate that leaves order_id and order_item_ids out
LotMetadata ==
    [ lot_date : {None, 2}, has_name : {FALSE}, name : { << >> },
      has_location : BOOLEAN, location : { <<"b">> },
      order_id : {None}, has_ids : {FALSE}, order_item_ids : { {} } ]
    \cup
    [ lot_date : {None}, has_name : {TRUE}, name : { <<"n">> },
      has_location : {FALSE}, location : { << >> },
      order_id : {None}, has_ids : {FALSE}, order_item_ids : { {} } ]

\* what the lot operations find in the store
LotPre == [ items |-> items, lots |-> lots ]

CreateLot(payloads) ==
    \E payload \in payloads :
        /\ next_id.lots <= MaxLots
        /\ Serve("create_lot", next_id.lots, payload, LotPre,
                 create_lot(DB, payload))

UpdateLot(payloads) ==
    \E lot_id \in LotIds, payload \in payloads :
        Serve("update_lot", lot_id, payload, LotPre,
              update_lot(DB, lot_id, payload))

DeleteLot ==
    \E lot_id \in LotIds :
        Serve("delete_lot", lot_id, << >>, LotPre, delete_lot(DB, lot_id))

\* one unpriced entry per product
UnitLines == { Line(p, 1, None) : p \in ProductIds }

NextLots ==
    \/ CreateFirstCustomer
    \/ CreateProduct
    \/ CreateFirstOrder(OrderCreates({1}, {0}, UnitLines))
    \/ DeleteOrder
    \/ CreateLot(LotCreates({1}, { <<"a">>, <<"b">> }))
    \/ UpdateLot(LotAssociations)
    \/ DeleteLot

SpecLots == Init /\ [][NextLots]_vars

\* ------------------------------------------------------------------------
\* Specification: the scalar fields of an order
\* ------------------------------------------------------------------------
NextFields ==
    \/ CreateCustomer
    \/ CreateProduct
    \/ CreateFirstOrder(OrderCreates({1}, {0}, { Line(1, 1, None) }))
    \/ UpdateOrder(FieldUpdates({None, 2}, {NoStatus} \cup Statuses,
                                {None, 0, 50}))
    \/ DeleteOrder

SpecFields == Init /\ [][NextFields]_vars

\* ------------------------------------------------------------------------
\* Specification: requests that name rows the store does not have
\* ------------------------------------------------------------------------
NextAbort ==
    \/ CreateFirstCustomer
    \/ CreateProduct
    \/ CreateFirstOrder(OrderCreates({1}, {0}, UnitLines))
    \/ UpdateOrder(ItemUpdates({None}, UnitLines \cup { Line(2, 1, Explicit) }))
    \/ CreateLot(LotCreates({1}, { <<"a">> }))
    \/ UpdateLot(LotAssociations)

SpecAbort == Init /\ [][NextAbort]_vars

\* ------------------------------------------------------------------------
\* Specification: lot associations over the items of two orders
\* ------------------------------------------------------------------------
NextAssoc ==
    \/ CreateFirstCustomer
    \/ CreateProduct
    \/ CreateOrder(OrderCreates({1}, {0}, { Line(1, 1, None) }))
    \/ CreateLot(LotCreates({1}, { <<"a">> }))
    \/ UpdateLot(LotAssociations)

SpecAssoc == Init /\ [][NextAssoc]_vars

\* ------------------------------------------------------------------------
\* Specification: lots whose date, name and location are edited
\* ------------------------------------------------------------------------
NextMeta ==
    \/ CreateFirstCustomer
    \/ CreateProduct
    \/ CreateFirstOrder(OrderCreates({1}, {0}, UnitLines))
    \/ CreateLot(LotCreates({1}, { <<"a">> }))
    \/ UpdateLot(LotMetadata)
    \/ DeleteLot

SpecMeta == Init /\ [][NextMeta]_vars

\* ------------------------------------------------------------------------
\* Specification: lot names and locations with blanks around them
\* ------------------------------------------------------------------------
\* free texts: empty, blank, plain, padded
Locations == { << >>, <<" ">>, <<"a">>, <<" ", "a", " ">> }

\* names a caller sends: free, the composed name of date 1 with and without
\* location "a", and the composed name padded
Names == { <<"n">>, <<"1">>, <<"1", " ", "a">>, <<" ", "1", " ", "a", " ">> }

\* LotCreate without associations
NamedLotCreates ==
    [ lot_date : {1}, name : Names, location : Locations,
      order_id : {None}, has_ids : {FALSE}, order_item_ids : { {} } ]

\* LotUpdate of date, name and location
NamedLotUpdates ==
    [ lot_date : {None, 2}, has_name : {FALSE}, name : { << >> },
      has_location : {FALSE}, location : { << >> },
      order_id : {None}, has_ids : {FALSE}, order_item_ids : { {} } ]
    \cup
    [ lot_date : {None}, has_name : {TRUE}, name : Names,
      has_location : BOOLEAN, location : { <<" ", "a", " ">> },
      order_id : {None}, has_ids : {FALSE}, order_item_ids : { {} } ]
    \cup
    [ lot_date : {None}, has_name : {FALSE}, name : { << >> },
      has_location : {TRUE}, location : Locations,
      order_id : {None}, has_ids : {FALSE}, order_item_ids : { {} } ]

NextNames ==
    \/ CreateLot(NamedLotCreates)
    \/ UpdateLot(NamedLotUpdates)
    \/ DeleteLot

SpecNames == Init /\ [][NextNames]_vars

\* ------------------------------------------------------------------------
\* Specification: two update_order calls on one order, statement by
\* statement, the store at READ COMMITTED
\* ------------------------------------------------------------------------
\* no update_order is under way
Quiet == \A c \in Callers : sessions[c].pc = "idle"

\* the other caller
Other(c) == CHOOSE d \in Callers : d # c

\* the session ends, with what it holds released
Closed(pc) == [ NoSession EXCEPT !.pc = pc ]

\* both callers open a session and find the order:
\* `select(OrderORM).where(OrderORM.id == order_id)`
BeginBoth(payloads) ==
    \E order_id \in DOMAIN orders, reqs \in [ Callers -> payloads ] :
        /\ Quiet
        /\ \A c \in Callers : reqs[c].has_items
        /\ next_id.items + SumOver(Callers,
               [ c \in Callers |-> Len(Aggregate(reqs[c].items).keys) ]) - 1
              <= MaxRaceRows
        /\ sessions' = [ c \in Callers |->
                           [ NoSession EXCEPT !.pc = "loaded",
                                              !.items = reqs[c].items ] ]
        /\ last' = [ op |-> "update_order", id |-> order_id, req |-> reqs,
                     pre |-> DB, code |-> "ok", body |-> << >>,
                     wrote |-> << >> ]
        /\ UNCHANGED <<customers, products, orders, items, lots,
                       expenses_categories, expenses, incomes_categories,
                       incomes, next_id>>

\* a locking read or a DELETE of the order's rows waits while the other
\* session holds the lock of one of them, or has inserted a row of the
\* order and not committed
Waits(c, order_id) ==
    LET o == sessions[Other(c)]
    IN  \/ ItemsOf(DB, order_id) \cap (o.locked \cup o.deleted) # {}
        \/ \E i \in DOMAIN o.inserted : o.inserted[i].order_id = order_id

\* `select(OrderItemORM).where(order_id == ...).with_for_update()`: the
\* committed rows of the order are locked and their prices kept; an order
\* without rows leaves nothing locked
LockRows(c) ==
    /\ sessions[c].pc = "loaded"
    /\ ~Waits(c, last.id)
    /\ sessions' = [ sessions EXCEPT
                       ![c].pc = "locked",
                       ![c].locked = ItemsOf(DB, last.id),
                       ![c].existing_items = ExistingItems(last.id) ]
    /\ UNCHANGED <<customers, products, orders, items, lots,
                   expenses_categories, expenses, incomes_categories,
                   incomes, next_id, last>>

\* `delete(OrderItemORM).where(order_id == ...)`, then the loop that builds
\* the new rows and session.add()s them; a product that is looked up and is
\* not there raises, and the session is rolled back
DeleteRows(c) ==
    LET s    == sessions[c]
        agg  == Aggregate(s.items)
        miss == FirstMissingProduct(DB, agg.keys,
                    { pid \in Range(agg.keys) :
                        ReplacePrice(s.existing_items, pid, agg.data[pid])
                            = None })
        rows == [ k \in DOMAIN agg.keys |->
                    LET pid == agg.keys[k]
                        p   == ReplacePrice(s.existing_items, pid,
                                            agg.data[pid])
                    IN  [ order_id   |-> last.id,
                          product_id |-> pid,
                          quantity   |-> agg.data[pid].quantity,
                          unit_price |-> IF p = None THEN products[pid]
                                         ELSE p,
                          lot_id     |-> None ] ]
    IN  /\ s.pc = "locked"
        /\ ~Waits(c, last.id)
        /\ sessions' = [ sessions EXCEPT ![c] =
               IF miss # 0 THEN Closed("ValueError")
               ELSE [ s EXCEPT !.pc = "added",
                               !.deleted = ItemsOf(DB, last.id),
                               !.new_rows = rows ] ]
        /\ UNCHANGED <<customers, products, orders, items, lots,
                       expenses_categories, expenses, incomes_categories,
                       incomes, next_id, last>>

\* the committed rows that hold the key (order_id, product_id) of a new row
\* and that this session has not deleted
SameKey(c, row) ==
    { i \in DOMAIN items \ sessions[c].deleted :
        /\ items[i].order_id = row.order_id
        /\ items[i].product_id = row.product_id }

\* an INSERT waits while the other session holds the lock of a row with its
\* key, or has inserted one and not committed
InsertWaits(c, row) ==
    LET o == sessions[Other(c)]
    IN  \/ SameKey(c, row) \cap (o.locked \cup o.deleted) # {}
        \/ \E i \in DOMAIN o.inserted :
              /\ o.inserted[i].order_id = row.order_id
              /\ o.inserted[i].product_id = row.product_id

\* uq_orderitem_order_product or the foreign key to products rejects the row
Rejected(c, row) ==
    \/ SameKey(c, row) # {}
    \/ row.product_id \notin DOMAIN products

\* session.commit(), first half: the flush sends the INSERTs of the added
\* rows; a rejected row raises IntegrityError and the session is rolled back
FlushRows(c) ==
    LET s    == sessions[c]
        n    == Len(s.new_rows)
        bad  == { k \in 1 .. n : Rejected(c, s.new_rows[k]) }
        sent == IF bad = {} THEN n
                ELSE CHOOSE k \in bad : \A j \in bad : k <= j
        base == next_id.items
    IN  /\ s.pc = "added"
        /\ \A k \in 1 .. sent : ~InsertWaits(c, s.new_rows[k])
        /\ sessions' = [ sessions EXCEPT ![c] =
               IF bad # {} THEN Closed("IntegrityError")
               ELSE [ s EXCEPT
                        !.pc = "flushed",
                        !.new_rows = << >>,
                        !.inserted = [ i \in { base + k - 1 : k \in 1 .. n }
                                         |-> s.new_rows[i - base + 1] ] ] ]
        \* the autoincrement counter is not rolled back
        /\ next_id' = [ next_id EXCEPT !.items = base + sent ]
        /\ UNCHANGED <<customers, products, orders, items, lots,
                       expenses_categories, expenses, incomes_categories,
                       incomes, last>>

\* session.commit(), second half: COMMIT makes the deletes and the inserts
\* of the session visible and releases its locks
CommitRows(c) ==
    LET s == sessions[c]
    IN  /\ s.pc = "flushed"
        /\ items' = s.inserted @@ Without(items, s.deleted)
        /\ sessions' = [ sessions EXCEPT ![c] = Closed("ok") ]
        /\ UNCHANGED <<customers, products, orders, lots,
                       expenses_categories, expenses, incomes_categories,
                       incomes, next_id, last>>

\* the other requests are served while no update_order is under way
NextRace ==
    \/ Quiet /\ CreateFirstCustomer
    \/ Quiet /\ CreateProduct
    \/ Quiet /\ CreateFirstOrder(OrderCreates({1}, {0}, UnitLines))
    \/ BeginBoth(ItemUpdates({None}, UnitLines))
    \/ \E c \in Callers : LockRows(c)
    \/ \E c \in Callers : DeleteRows(c)
    \/ \E c \in Callers : FlushRows(c)
    \/ \E c \in Callers : CommitRows(c)

SpecRace == Init /\ [][NextRace]_vars

\* ------------------------------------------------------------------------
\* Specification: cashflow report over orders, incomes and expenses
\* ------------------------------------------------------------------------
CategoryIds == 1 .. MaxCategories

\* ExpenseCreate / IncomeCreate
EntryCreates(dates, amounts) ==
    [ category_id : CategoryIds, timestamp : dates, amount : amounts ]

\* CashflowRequest
CashflowRequests ==
    [ start_date : Dates, end_date : Dates, include_incomes : BOOLEAN ]

\* OrderUpdate that sets the status only
StatusUpdates == { [ NoUpdate EXCEPT !.status = st ] : st \in Statuses }

CreateExpenseCategory ==
    /\ next_id.expenses_categories <= MaxCategories
    /\ Serve("create_expense_category", None, << >>, << >>,
             create_expense_category(DB))

CreateExpense(payloads) ==
    \E payload \in payloads :
        /\ next_id.expenses <= MaxEntries
        /\ Serve("create_expense", None, payload, << >>,
                 create_expense(DB, payload))

CreateIncomeCategory ==
    /\ next_id.incomes_categories <= MaxCategories
    /\ Serve("create_income_category", None, << >>, << >>,
             create_income_category(DB))

CreateIncome(payloads) ==
    \E payload \in payloads :
        /\ next_id.incomes <= MaxEntries
        /\ Serve("create_income", None, payload, << >>,
                 create_income(DB, payload))

ReportCashflow ==
    \E payload \in CashflowRequests :
        Answer("report_cashflow", None, payload, report_cashflow(DB, payload))

NextCash ==
    \/ CreateFirstCustomer
    \/ CreateProduct
    \/ CreateFirstOrder(OrderCreates(Dates, Discounts, { Line(1, 1, None) }))
    \/ UpdateOrder(StatusUpdates)
    \/ CreateExpenseCategory
    \/ CreateExpense(EntryCreates(Dates, {25}))
    \/ CreateIncomeCategory
    \/ CreateIncome(EntryCreates(Dates, {100}))
    \/ ReportCashflow

SpecCash == Init /\ [][NextCash]_vars

\* ------------------------------------------------------------------------
\* Specification: expenses and incomes reported by category
\* ------------------------------------------------------------------------
ReportedIds == 1 .. MaxReported

\* ExpensesCategoriesRequest / IncomeCategoriesRequest; category_ids absent
\* is the empty set here, as `if payload.category_ids` takes both alike
CategoriesRequests ==
    [ start_date : Dates, end_date : Dates,
      category_ids : SUBSET (1 .. MaxReported + 1) ]

CreateReportedExpenseCategory ==
    /\ next_id.expenses_categories <= MaxReported
    /\ Serve("create_expense_category", None, << >>, << >>,
             create_expense_category(DB))

CreateReportedIncomeCategory ==
    /\ next_id.incomes_categories <= MaxReported
    /\ Serve("create_income_category", None, << >>, << >>,
             create_income_category(DB))

ReportExpensesCategories ==
    \E payload \in CategoriesRequests :
        Answer("report_expenses_categories", None, payload,
               report_expenses_categories(DB, payload))

ReportIncomeCategories ==
    \E payload \in CategoriesRequests :
        Answer("report_income_categories", None, payload,
               report_income_categories(DB, payload))

NextCategories ==
    \/ CreateReportedExpenseCategory
    \/ CreateExpense([ category_id : ReportedIds, timestamp : {1, 3},
                       amount : {25} ])
    \/ CreateReportedIncomeCategory
    \/ CreateIncome([ category_id : {1}, timestamp : {2, 3},
                      amount : {100} ])
    \/ ReportExpensesCategories
    \/ ReportIncomeCategories

SpecCategories == Init /\ [][NextCategories]_vars

\* ------------------------------------------------------------------------
\* Specification: sales reported by customer
\* ------------------------------------------------------------------------
\* CustomerSalesRequest
CustomerSalesRequests ==
    [ customer_id : CustomerIds, start_date : Dates, end_date : Dates ]

ReportCustomerSales ==
    \E payload \in CustomerSalesRequests :
        Answer("report_customer_sales", None, payload,
               report_customer_sales(DB, payload))

NextSales ==
    \/ CreateCustomer
    \/ CreateProduct
    \/ CreateOrder(OrderCreates(Dates, Discounts, UnitLines))
    \/ ReportCustomerSales

SpecSales == Init /\ [][NextSales]_vars

\* ------------------------------------------------------------------------
\* Specification: listing with pages, filters and sort entries
\* ------------------------------------------------------------------------
\* SortParam
Clause(field, order) == [ field |-> field, order |-> order ]

\* ListingQueryParams: a filter left out of the request has the value None
ListingRequests(pages, sizes, filters, sorts) ==
    [ page : pages, size : sizes, filters : filters, sort : sorts ]

ListLots(paramsSet) ==
    \E params \in paramsSet :
        Answer("list_lots", None, params, list_lots(DB, params))

ListExpenses(paramsSet) ==
    \E params \in paramsSet :
        Answer("list_expenses", None, params, list_expenses(DB, params))

ListIncomes(paramsSet) ==
    \E params \in paramsSet :
        Answer("list_incomes", None, params, list_incomes(DB, params))

ListProducts(paramsSet) ==
    \E params \in paramsSet :
        Answer("list_products", None, params, list_products(DB, params))

ListCustomers(paramsSet) ==
    \E params \in paramsSet :
        Answer("list_customers", None, params, list_customers(DB, params))

\* lots with no order items, one location
BareLots(dates) ==
    [ lot_date : dates, name : { <<"n">> }, location : { << >> },
      order_id : {None}, has_ids : {FALSE}, order_item_ids : { {} } ]

\* orders of customer 1 with one unit of product 1
UnitOrders(dates) ==
    [ customer_id : {1}, delivery_date : dates, applied_discount : {0},
      items : { << Line(1, 1, None) >> } ]

\* pages before, at and beyond the last one, of a positive size
Pages == ListingRequests(1 .. 3, {1, 2}, [ id : {None, 1} ],
                         { << Clause("id", "desc") >> })

OrderPages == ListingRequests(1 .. 3, {1, 2},
                  [ delivery_date_after : {None, 2} ],
                  { << >>, << Clause("delivery_date", "desc"),
                              Clause("id", "asc") >> })

NextPages ==
    \/ CreateFirstCustomer
    \/ CreateProduct
    \/ CreateOrder(UnitOrders(Dates))
    \/ CreateLot(BareLots(Dates))
    \/ CreateExpenseCategory
    \/ CreateExpense([ category_id : {1}, timestamp : {1}, amount : {25} ])
    \/ ListOrders(OrderPages)
    \/ ListProducts(Pages)
    \/ ListLots(Pages)
    \/ ListExpenses(Pages)

SpecPages == Init /\ [][NextPages]_vars

\* ------------------------------------------------------------------------
\* Specification: listing with a size of one, of zero and below zero
\* ------------------------------------------------------------------------
Sizes == ListingRequests({1, 2}, {-1, 0, 1}, [ id : {None} ], { << >> })

NextSizes ==
    \/ CreateFirstCustomer
    \/ CreateProduct
    \/ CreateOrder(UnitOrders({1}))
    \/ CreateLot(BareLots(Dates))
    \/ CreateExpenseCategory
    \/ CreateExpense([ category_id : {1}, timestamp : {1}, amount : {25} ])
    \/ CreateIncomeCategory
    \/ CreateIncome([ category_id : {1}, timestamp : {1}, amount : {100} ])
    \/ ListOrders(Sizes)
    \/ ListLots(Sizes)
    \/ ListExpenses(Sizes)
    \/ ListIncomes(Sizes)
    \/ ListProducts(Sizes)
    \/ ListCustomers(Sizes)

SpecSizes == Init /\ [][NextSizes]_vars

\* ------------------------------------------------------------------------
\* Specification: listing with field names outside the allowed-field maps
\* ------------------------------------------------------------------------
\* requests with a filter key and sort entries no map has
Lenient == ListingRequests({1}, {2}, [ id : {None, 1}, colour : {None, 1} ],
               { << Clause("colour", "asc") >>,
                 << Clause("colour", "desc"), Clause("id", "desc") >> })

NextLenient ==
    \/ CreateFirstCustomer
    \/ CreateProduct
    \/ CreateOrder(UnitOrders({1}))
    \/ CreateLot(BareLots(Dates))
    \/ CreateExpenseCategory
    \/ CreateExpense([ category_id : {1}, timestamp : {1}, amount : {25} ])
    \/ ListOrders(Lenient)
    \/ ListLots(Lenient)
    \/ ListExpenses(Lenient)
    \/ ListProducts(Lenient)

SpecLenient == Init /\ [][NextLenient]_vars

\* ------------------------------------------------------------------------
\* Specification: listing with date filters that do not parse
\* ------------------------------------------------------------------------
\* the dates a payload may carry: `date` fields take every calendar date,
\* 1900-01-01 among them
StoredDates == {Date1900, 1}

NextDates ==
    \/ CreateFirstCustomer
    \/ CreateProduct
    \/ CreateOrder(UnitOrders(StoredDates))
    \/ CreateLot(BareLots({Date1900}))
    \/ CreateExpenseCategory
    \/ CreateExpense([ category_id : {1}, timestamp : StoredDates,
                       amount : {25} ])
    \/ CreateIncomeCategory
    \/ CreateIncome([ category_id : {1}, timestamp : {Date1900},
                      amount : {100} ])
    \/ ListOrders(ListingRequests({1}, {2},
           [ delivery_date_after  : {None, Unparsable, 1},
             delivery_date_before : {None, Unparsable} ], { << >> }))
    \/ ListLots(ListingRequests({1}, {2},
           [ lot_date_after : {None, Unparsable},
             lot_date_before : {None, Unparsable} ], { << >> }))
    \/ ListExpenses(ListingRequests({1}, {2},
           [ timestamp_after : {None, Unparsable, 1} ], { << >> }))
    \/ ListIncomes(ListingRequests({1}, {2},
           [ timestamp_before : {None, Unparsable, 1} ], { << >> }))

SpecDates == Init /\ [][NextDates]_vars

\* ------------------------------------------------------------------------
\* Specification: orders and lots created, rewritten and deleted
\* ------------------------------------------------------------------------
NextIntegrity ==
    \/ CreateFirstCustomer
    \/ CreateProduct
    \/ CreateOrder(OrderCreates({1}, {0}, UnitLines))
    \/ UpdateOrder(ItemUpdates({None}, UnitLines))
    \/ DeleteOrder
    \/ CreateLot(BareLots({1}))
    \/ UpdateLot({ p \in LotAssociations : p.has_ids /\ p.order_id = None })
    \/ DeleteLot

SpecIntegrity == Init /\ [][NextIntegrity]_vars

\* ------------------------------------------------------------------------
\* Specification: deleting products, customers and categories
\* ------------------------------------------------------------------------
\* what a delete request finds: is the row there, is it referenced
DeletePre(exists, referenced) ==
    [ exists |-> exists, referenced |-> referenced ]

DeleteProduct ==
    \E product_id \in ProductIds :
        Serve("delete_product", product_id, << >>,
              DeletePre(product_id \in DOMAIN products,
                        \E i \in DOMAIN items :
                            items[i].product_id = product_id),
              delete_product_route(DB, product_id))

DeleteCustomer ==
    \E customer_id \in CustomerIds :
        Serve("delete_customer", customer_id, << >>,
              DeletePre(customer_id \in customers,
                        \E o \in DOMAIN orders :
                            orders[o].customer_id = customer_id),
              delete_customer_route(DB, customer_id))

DeleteExpenseCategory ==
    \E category_id \in CategoryIds :
        Serve("delete_expense_category", category_id, << >>,
              DeletePre(category_id \in expenses_categories,
                        \E e \in DOMAIN expenses :
                            expenses[e].category_id = category_id),
              delete_expense_category_route(DB, category_id))

DeleteIncomeCategory ==
    \E category_id \in CategoryIds :
        Serve("delete_income_category", category_id, << >>,
              DeletePre(category_id \in incomes_categories,
                        \E e \in DOMAIN incomes :
                            incomes[e].category_id = category_id),
              delete_income_category_route(DB, category_id))

NextGuard ==
    \/ CreateFirstCustomer
    \/ CreateProduct
    \/ CreateFirstOrder(OrderCreates({1}, {0}, UnitLines))
    \/ DeleteOrder
    \/ CreateExpenseCategory
    \/ CreateExpense(EntryCreates({1}, {25}))
    \/ CreateIncomeCategory
    \/ CreateIncome(EntryCreates({1}, {25}))
    \/ DeleteProduct
    \/ DeleteCustomer
    \/ DeleteExpenseCategory
    \/ DeleteIncomeCategory

SpecGuard == Init /\ [][NextGuard]_vars

\* ------------------------------------------------------------------------
\* Specification: a delete of a product or customer among create_order
\* calls, transaction by transaction
\* ------------------------------------------------------------------------
\* a call between two of its transactions: what it was asked
Pending(pc, req) == [ pc |-> pc, req |-> req ]

Idle(c) == sessions[c].pc = "idle"

\* the store and the last response stay, caller c moves on
Proceed(c, pc, req) ==
    /\ sessions' = [ sessions EXCEPT ![c] = Pending(pc, req) ]
    /\ UNCHANGED <<customers, products, orders, items, lots,
                   expenses_categories, expenses, incomes_categories,
                   incomes, next_id, last>>

\* the call of caller c ends with response r
Respond(c, op, id, req, pre, r) ==
    /\ Commit(op, id, req, pre, r)
    /\ sessions' = [ sessions EXCEPT ![c] = NoSession ]

\* DELETE /products/{id}, first transaction: product_has_orders
CheckProduct(c) ==
    \E product_id \in ProductIds :
        /\ Idle(c)
        /\ IF product_has_orders(DB, product_id)
           THEN Respond(c, "delete_product", product_id, << >>,
                        DeletePre(product_id \in DOMAIN products, TRUE),
                        Raise(DB, "409", "referenced"))
           ELSE Proceed(c, "delete_product", product_id)

\* DELETE /products/{id}, second transaction: delete_product
RemoveProduct(c) ==
    /\ sessions[c].pc = "delete_product"
    /\ LET product_id == sessions[c].req
           r == delete_product(DB, product_id)
       IN  Respond(c, "delete_product", product_id, << >>,
                   DeletePre(product_id \in DOMAIN products,
                             product_has_orders(DB, product_id)),
                   IF r.code = "not_found" THEN Raise(DB, "404", "not found")
                   ELSE r)

\* DELETE /customers/{id}, first transaction: customer_has_orders
CheckCustomer(c) ==
    \E customer_id \in CustomerIds :
        /\ Idle(c)
        /\ IF customer_has_orders(DB, customer_id)
           THEN Respond(c, "delete_customer", customer_id, << >>,
                        DeletePre(customer_id \in customers, TRUE),
                        Raise(DB, "409", "referenced"))
           ELSE Proceed(c, "delete_customer", customer_id)

\* DELETE /customers/{id}, second transaction: delete_customer
RemoveCustomer(c) ==
    /\ sessions[c].pc = "delete_customer"
    /\ LET customer_id == sessions[c].req
           r == delete_customer(DB, customer_id)
       IN  Respond(c, "delete_customer", customer_id, << >>,
                   DeletePre(customer_id \in customers,
                             customer_has_orders(DB, customer_id)),
                   IF r.code = "not_found" THEN Raise(DB, "404", "not found")
                   ELSE r)

\* create_order up to `session.add(order_orm)`: the customer and the
\* products are read, nothing is written yet
ReadForOrder(c, payloads) ==
    \E payload \in payloads :
        /\ Idle(c)
        /\ \A d \in Callers : sessions[d].pc # "create_order"
        /\ next_id.orders <= MaxOrders
        /\ next_id.items + Len(Aggregate(payload.items).keys) - 1 <= MaxItemRows
        /\ LET r == create_order(DB, payload)
           IN  IF r.code = "ok"
               THEN Proceed(c, "create_order", payload)
               ELSE Respond(c, "create_order", next_id.orders, payload,
                            << >>, r)

\* create_order, `session.commit()`: the INSERTs are flushed and the store
\* checks the foreign keys against the rows committed by now
WriteOrder(c) ==
    /\ sessions[c].pc = "create_order"
    /\ LET payload == sessions[c].req
           r == create_order(DB, payload)
       IN  Respond(c, "create_order", next_id.orders, payload, << >>,
                   IF r.code = "ok" THEN r
                   ELSE RaiseAfter(DB, "IntegrityError", "foreign key",
                                   << "INSERT orders" >>))

NextDeleteRace ==
    \/ CreateFirstCustomer
    \/ CreateProduct
    \/ \E c \in Callers : CheckProduct(c)
    \/ \E c \in Callers : RemoveProduct(c)
    \/ \E c \in Callers : CheckCustomer(c)
    \/ \E c \in Callers : RemoveCustomer(c)
    \/ \E c \in Callers : ReadForOrder(c, UnitOrders({1}))
    \/ \E c \in Callers : WriteOrder(c)

SpecDeleteRace == Init /\ [][NextDeleteRace]_vars

\* ------------------------------------------------------------------------
\* Specification: orders among product, lot and customer operations
\* ------------------------------------------------------------------------
\* one entry of product 1, unpriced or priced
FrameLines == { Line(1, 1, None), Line(1, 1, Explicit) }

NextFrame ==
    \/ CreateFirstCustomer
    \/ DeleteCustomer
    \/ CreateProduct
    \/ UpdateProduct
    \/ CreateFirstOrder(OrderCreates({1}, {0}, { Line(1, 1, None) }))
    \/ UpdateOrder(ItemUpdates({None}, FrameLines))
    \/ UpdateOrder(StatusUpdates)
    \/ CreateLot({ p \in LotCreates({1}, { <<"a">> }) : ~p.has_ids })
    \/ UpdateLot({ p \in LotAssociations : p.has_ids /\ p.order_id = None })
    \/ DeleteLot

SpecFrame == Init /\ [][NextFrame]_vars


\* ------------------------------------------------------------------------
\* Properties of the order lifecycle
\* ------------------------------------------------------------------------
\* the positions of the entries of a request for one product
EntriesOf(lines, pid) == { k \in DOMAIN lines : lines[k].product_id = pid }

\* the rows a served create_order / update_order left for one product
RowsOf(order_id, pid) ==
    { i \in ItemsOf(DB, order_id) : items[i].product_id = pid }

Created  == last.op = "create_order" /\ last.code = "ok"
Replaced == last.op = "update_order" /\ last.code = "ok" /\ last.req.has_items

\* C1: after a create_order, every product whose N >= 1 entries all come
\* without unit_price has exactly one item in the new order, with the sum of
\* the N quantities and the product's current unit_price.
C1_CreateAggregates ==
    Created =>
        \A pid \in ProductIds :
            LET idx == EntriesOf(last.req.items, pid)
            IN  (idx # {} /\ \A k \in idx : last.req.items[k].unit_price = None)
                => /\ Cardinality(RowsOf(last.id, pid)) = 1
                   /\ \A i \in RowsOf(last.id, pid) :
                         /\ items[i].quantity =
                               SumOver(idx, [ k \in idx |->
                                                last.req.items[k].quantity ])
                         /\ items[i].unit_price = products[pid]

\* a create_order has merged two unpriced entries of different quantity
C1_Witness ==
    /\ Created
    /\ \E pid \in ProductIds :
          LET idx == EntriesOf(last.req.items, pid)
          IN  /\ Cardinality(idx) >= 2
              /\ \A k \in idx : last.req.items[k].unit_price = None
              /\ \E j, k \in idx :
                    last.req.items[j].quantity # last.req.items[k].quantity

\* C2: no two order items share their (order_id, product_id).
C2_OneItemPerOrderProduct ==
    \A i, j \in DOMAIN items :
        (items[i].order_id = items[j].order_id
            /\ items[i].product_id = items[j].product_id) => i = j

\* an update_order has replaced the items by a list that names a product
\* the order already had, twice
C2_Witness ==
    /\ Replaced
    /\ \E pid \in DOMAIN last.pre :
          /\ Cardinality(EntriesOf(last.req.items, pid)) >= 2
          /\ RowsOf(last.id, pid) # {}

\* requests of the orders listing that return every order
AllRows == [ page : {1}, size : {-1, MaxOrders + 1},
             filters : { << >> }, sort : { << >> } ]

\* round(sum(quantity * unit_price) * (1 - applied_discount / 100), 2) over
\* the rows of order_items, in cents
ExpectedTotal(order_id) ==
    LET its == { i \in DOMAIN items : items[i].order_id = order_id }
    IN  Round2(SumOver(its, [ i \in its |->
                   items[i].quantity * items[i].unit_price ])
               * (100 - orders[order_id].applied_discount))

\* C3: get_order_by_id and list_orders return the same total_amount for an
\* order, the rounded discounted sum over its items, and 0 when the order
\* has no items.
C3_TotalsAgree ==
    \A o \in DOMAIN orders :
        LET got == get_order_by_id(DB, o)
        IN  /\ got.found
            /\ got.total_amount = ExpectedTotal(o)
            /\ ItemsOf(DB, o) = {} => got.total_amount = 0
            /\ \A params \in AllRows :
                  LET page == list_orders(DB, params).items
                  IN  /\ \E k \in DOMAIN page : page[k].id = o
                      /\ \A k \in DOMAIN page :
                            page[k].id = o =>
                                page[k].total_amount = got.total_amount

\* a listing has returned an order whose discounted sum is not a whole
\* number of cents
C3_Witness ==
    /\ last.op = "list_orders"
    /\ \E k \in DOMAIN last.body.items :
          LET o   == last.body.items[k].id
              its == ItemsOf(DB, o)
          IN  /\ its # {}
              /\ orders[o].applied_discount = 50
              /\ (SumOver(its, [ i \in its |->
                      items[i].quantity * items[i].unit_price ]) * 50) % 100 # 0
              /\ last.body.items[k].total_amount
                    = get_order_by_id(DB, o).total_amount

\* C12: an update_order that supplies a list L whose products all exist
\* succeeds and leaves the order with exactly one item per distinct product
\* of L, its quantity the sum of L's quantities for the product; nothing the
\* order held before survives unless L names it, and L = [] leaves no item.
C12_FullReplacement ==
    (/\ last.op = "update_order"
     /\ last.req.has_items
     /\ last.code # "not_found"
     /\ \A k \in DOMAIN last.req.items :
           last.req.items[k].product_id \in DOMAIN products)
    => /\ last.code = "ok"
       /\ { items[i].product_id : i \in ItemsOf(DB, last.id) }
             = { last.req.items[k].product_id : k \in DOMAIN last.req.items }
       /\ last.req.items = << >> => ItemsOf(DB, last.id) = {}
       /\ \A pid \in ProductIds :
             LET idx == EntriesOf(last.req.items, pid)
             IN  /\ idx = {} => RowsOf(last.id, pid) = {}
                 /\ idx # {} =>
                       /\ Cardinality(RowsOf(last.id, pid)) = 1
                       /\ \A i \in RowsOf(last.id, pid) :
                             items[i].quantity =
                                SumOver(idx, [ k \in idx |->
                                                 last.req.items[k].quantity ])

\* an update_order has dropped a product the order had and brought in
\* another
C12_Witness ==
    /\ Replaced
    /\ \E pid \in DOMAIN last.pre : EntriesOf(last.req.items, pid) = {}
    /\ \E pid \in ProductIds \ DOMAIN last.pre : RowsOf(last.id, pid) # {}

\* C4: after an update_order that supplies items, a product the order had
\* before and whose entries all come without unit_price keeps its previous
\* snapshot price; a product the order had before is never priced from the
\* products table.
C4_SnapshotKept ==
    Replaced =>
        \A pid \in DOMAIN last.pre :
            LET idx == EntriesOf(last.req.items, pid)
            IN  \A i \in RowsOf(last.id, pid) :
                  /\ (\A k \in idx : last.req.items[k].unit_price = None)
                        => items[i].unit_price = last.pre[pid]
                  /\ \/ items[i].unit_price = last.pre[pid]
                     \/ \E k \in idx :
                           last.req.items[k].unit_price = items[i].unit_price

\* an unpriced product was re-submitted after its live price had moved away
\* from the snapshot
C4_Witness ==
    /\ Replaced
    /\ \E pid \in DOMAIN last.pre :
          /\ EntriesOf(last.req.items, pid) # {}
          /\ \A k \in EntriesOf(last.req.items, pid) :
                last.req.items[k].unit_price = None
          /\ pid \in DOMAIN products
          /\ products[pid] # last.pre[pid]
          /\ RowsOf(last.id, pid) # {}

\* the unit_price of the last entry for pid that carries one
LastExplicit(lines, pid) ==
    LET idx == { k \in EntriesOf(lines, pid) : lines[k].unit_price # None }
        k   == CHOOSE m \in idx : \A n \in idx : n <= m
    IN  lines[k].unit_price

\* C10: in create_order and update_order, when at least one of the entries
\* for a product carries a unit_price, the merged item has the last
\* unit_price supplied, wherever the priced entries stand in the list.
C10_ExplicitPriceWins ==
    (Created \/ Replaced) =>
        \A pid \in ProductIds :
            (\E k \in EntriesOf(last.req.items, pid) :
                 last.req.items[k].unit_price # None)
            => \A i \in RowsOf(last.id, pid) :
                   items[i].unit_price = LastExplicit(last.req.items, pid)

\* ------------------------------------------------------------------------
\* Properties of the lot associations
\* ------------------------------------------------------------------------
LotOp     == last.op \in {"create_lot", "update_lot"}
Requested == LotOp /\ (last.req.has_ids \/ last.req.order_id # None)

\* the lot each row pointed at before the request, None for a row that did
\* not
LotBefore(i) ==
    IF i \in DOMAIN last.pre.items THEN last.pre.items[i].lot_id ELSE None

\* C5: a create_lot / update_lot of lot L with an explicit order_item_ids = S
\* leaves exactly S attached to L and every row that pointed at L and is not
\* in S with lot_id null; without order_id it succeeds for every set S of
\* existing item ids.
C5_ExactReassignment ==
    (LotOp /\ last.req.has_ids) =>
        /\ last.code = "ok" =>
              /\ LotItems(DB, last.id) = last.req.order_item_ids
              /\ \A i \in DOMAIN last.pre.items :
                    (LotBefore(i) = last.id /\ i \notin last.req.order_item_ids)
                    => (i \in DOMAIN items /\ items[i].lot_id = None)
        /\ (last.req.order_id = None
                /\ last.req.order_item_ids \subseteq DOMAIN last.pre.items)
              => last.code # "ValueError"

\* an update_lot has dropped one row from the lot and attached another
C5_Witness ==
    /\ last.op = "update_lot" /\ last.req.has_ids /\ last.code = "ok"
    /\ \E i \in DOMAIN last.pre.items :
          LotBefore(i) = last.id /\ i \notin last.req.order_item_ids
    /\ \E j \in last.req.order_item_ids : LotBefore(j) # last.id

\* the resolved target set of a served association request
Target ==
    IF last.req.has_ids THEN last.req.order_item_ids
    ELSE { i \in DOMAIN last.pre.items :
             last.pre.items[i].order_id = last.req.order_id }

\* C6: a create_lot / update_lot of lot B that changes associations puts
\* every target row into B, whatever lot it was in, and leaves every row that
\* is neither a target nor was attached to B as it was.
C6_AttachMovesOnlyTargets ==
    (Requested /\ last.code = "ok") =>
        /\ DOMAIN items = DOMAIN last.pre.items
        /\ \A i \in DOMAIN items :
              /\ i \in Target => items[i].lot_id = last.id
              /\ (i \notin Target /\ LotBefore(i) # last.id)
                    => items[i] = last.pre.items[i]

\* a row has moved from lot A to lot B while A kept another row
C6_Witness ==
    /\ Requested /\ last.code = "ok"
    /\ \E i, j \in DOMAIN items :
          /\ i \in Target /\ j \notin Target
          /\ LotBefore(i) \notin {None, last.id}
          /\ LotBefore(j) = LotBefore(i)
          /\ items[i].lot_id = last.id
          /\ items[j].lot_id = LotBefore(i)

\* C7: delete_lot of an existing lot removes the lot row, nulls lot_id on
\* the rows that referenced it and leaves every order item in place with its
\* order, product, quantity and unit_price; on a missing lot it returns False
\* and the store stays as it was.
C7_DeleteLotDetaches ==
    last.op = "delete_lot" =>
        IF last.id \in DOMAIN last.pre.lots
        THEN /\ last.code = "ok"
             /\ lots = Without(last.pre.lots, {last.id})
             /\ DOMAIN items = DOMAIN last.pre.items
             /\ \A i \in DOMAIN items :
                   items[i] = IF last.pre.items[i].lot_id = last.id
                              THEN [ last.pre.items[i] EXCEPT !.lot_id = None ]
                              ELSE last.pre.items[i]
        ELSE /\ last.code = "not_found"
             /\ lots = last.pre.lots
             /\ items = last.pre.items

\* a lot that held a row has been deleted
C7_Witness ==
    /\ last.op = "delete_lot" /\ last.code = "ok"
    /\ \E i \in DOMAIN last.pre.items : last.pre.items[i].lot_id = last.id

\* ------------------------------------------------------------------------
\* Properties of the cashflow report
\* ------------------------------------------------------------------------
Reported == last.op = "report_cashflow"

\* the orders that are delivered now and dated inside the window
DeliveredInWindow ==
    { o \in DOMAIN orders :
        /\ orders[o].status = "delivered"
        /\ last.req.start_date <= orders[o].delivery_date
        /\ orders[o].delivery_date <= last.req.end_date }

InWindow(table) ==
    { e \in DOMAIN table :
        /\ last.req.start_date <= table[e].timestamp
        /\ table[e].timestamp <= last.req.end_date }

\* the unrounded entries of the report, in hundredths of a cent
RawEntries ==
    SumOver(DeliveredInWindow,
        [ o \in DeliveredInWindow |->
            LET its == { i \in DOMAIN items : items[i].order_id = o }
            IN  SumOver(its, [ i \in its |->
                    items[i].quantity * items[i].unit_price
                        * (100 - orders[o].applied_discount) ]) ])
    + IF last.req.include_incomes
      THEN SumOver(InWindow(incomes),
               [ e \in InWindow(incomes) |-> 100 * incomes[e].amount ])
      ELSE 0

\* the unrounded expenses of the report, in hundredths of a cent
RawExpenses ==
    SumOver(InWindow(expenses),
        [ e \in InWindow(expenses) |-> 100 * expenses[e].amount ])

\* the totals of a report come from the delivered orders, the incomes and
\* the expenses of the window, and from nothing else
CashTotals ==
    /\ last.body.entries_total = Round2(RawEntries)
    /\ last.body.expenses_total = Round2(RawExpenses)
    /\ DOMAIN last.body.entries \subseteq DeliveredInWindow

\* C8 as stated: entries_total is the discounted sum of the delivered
\* in-window orders plus the in-window incomes when asked for, expenses_total
\* the sum of the in-window expenses, and net = entries_total -
\* expenses_total.
C8_CashflowAsStated ==
    Reported =>
        /\ CashTotals
        /\ last.body.net = last.body.entries_total - last.body.expenses_total

\* C8 as amended: the same entries_total and expenses_total; net is the
\* unrounded entries minus the unrounded expenses, rounded once, which is
\* within one cent of entries_total - expenses_total and equal to it when the
\* unrounded entries are a whole number of cents.
C8_Cashflow ==
    Reported =>
        /\ CashTotals
        /\ last.body.net = Round2(RawEntries - RawExpenses)
        /\ LET d == last.body.net
                     - (last.body.entries_total - last.body.expenses_total)
           IN  /\ d \in {-1, 0, 1}
               /\ RawEntries % 100 = 0 => d = 0

\* a report over a window that holds a delivered order, a created order's
\* worth of nothing, an income and an expense
C8_Witness ==
    /\ Reported
    /\ last.req.include_incomes
    /\ DeliveredInWindow # {}
    /\ \E o \in DeliveredInWindow : ItemsOf(DB, o) # {}
    /\ InWindow(incomes) # {}
    /\ InWindow(expenses) # {}
    /\ last.body.net # 0

\* ------------------------------------------------------------------------
\* Properties of the delete guard
\* ------------------------------------------------------------------------
DeleteOps == {"delete_product", "delete_customer",
              "delete_expense_category", "delete_income_category"}

\* is the row a delete request named still in the store?
StillThere ==
    IF last.op = "delete_product" THEN last.id \in DOMAIN products
    ELSE IF last.op = "delete_customer" THEN last.id \in customers
    ELSE IF last.op = "delete_expense_category"
         THEN last.id \in expenses_categories
    ELSE last.id \in incomes_categories

\* C9: a delete request for a referenced product, customer or category
\* answers 409 and leaves the row in the store; for an existing row without
\* references it succeeds and the row is gone.
C9_DeleteGuard ==
    last.op \in DeleteOps =>
        /\ last.pre.referenced => (last.code = "409" /\ StillThere)
        /\ (last.pre.exists /\ ~last.pre.referenced)
              => (last.code = "ok" /\ ~StillThere)

\* a delete of a referenced product has been refused
C9_Witness ==
    /\ last.op = "delete_product"
    /\ last.pre.referenced
    /\ last.code = "409"
    /\ last.id \in DOMAIN products

\* ------------------------------------------------------------------------
\* Properties of the scalar fields of an order
\* ------------------------------------------------------------------------
\* the step is an update_order that found its order and committed
Updated == last'.op = "update_order" /\ last'.code = "ok"

\* the value a partial update leaves in a field: the supplied one, or the
\* previous one when none is supplied
Partial(supplied, absent, previous) ==
    IF supplied # absent THEN supplied ELSE previous

\* C11: update_order stores each of delivery_date, applied_discount, status
\* and customer_id that the request supplies (the customer being one that
\* exists), and keeps the previous value of each one the request omits.
C11_PartialScalarUpdate ==
    [][ (Updated /\ last'.req.customer_id \in {None} \cup customers) =>
          LET o   == last'.id
              req == last'.req
          IN  /\ orders'[o].delivery_date
                    = Partial(req.delivery_date, None, orders[o].delivery_date)
              /\ orders'[o].applied_discount
                    = Partial(req.applied_discount, None,
                              orders[o].applied_discount)
              /\ orders'[o].status
                    = Partial(req.status, NoStatus, orders[o].status)
              /\ orders'[o].customer_id
                    = Partial(req.customer_id, None, orders[o].customer_id)
      ]_vars

\* C17 as stated: a new order starts in status 'created', and no
\* update_order moves a delivered order back to created.
C17_OnlyCreatedToDelivered ==
    [][ /\ (last'.op = "create_order" /\ last'.code = "ok")
              => orders'[last'.id].status = "created"
        /\ \A o \in DOMAIN orders \cap DOMAIN orders' :
              orders[o].status = "delivered"
                  => orders'[o].status = "delivered"
      ]_vars

\* C17 as amended: a new order starts in status 'created'; the status of an
\* order changes only in an update_order on that order that supplies a
\* status, and then becomes the supplied status, whichever of 'created' and
\* 'delivered' it is.
C17_StatusFollowsUpdate ==
    [][ /\ (last'.op = "create_order" /\ last'.code = "ok")
              => orders'[last'.id].status = "created"
        /\ \A o \in DOMAIN orders \cap DOMAIN orders' :
              IF Updated /\ last'.id = o /\ last'.req.status # NoStatus
              THEN orders'[o].status = last'.req.status
              ELSE orders'[o].status = orders[o].status
      ]_vars

\* an update_order has moved a delivered order back to created
C17_Witness ==
    /\ last.op = "update_order"
    /\ last.code = "ok"
    /\ last.req.status = "created"
    /\ last.body.status = "created"
    /\ orders[last.id].status = "created"

\* ------------------------------------------------------------------------
\* Properties of the price snapshot
\* ------------------------------------------------------------------------
\* what an item row says about its order: everything but the lot
ItemFacts(its) ==
    [ i \in DOMAIN its |->
        [ order_id   |-> its[i].order_id,
          product_id |-> its[i].product_id,
          quantity   |-> its[i].quantity,
          unit_price |-> its[i].unit_price ] ]

\* the snapshot prices an order holds for a product
PricesOf(its, order_id, pid) ==
    { its[i].unit_price :
        i \in { j \in DOMAIN its : /\ its[j].order_id = order_id
                                   /\ its[j].product_id = pid } }

\* the operations the snapshot is framed against
FrameOps == { "update_product", "create_customer", "delete_customer",
              "create_lot", "update_lot", "delete_lot" }

\* C13: the unit_price an order holds for a product changes only in an
\* update_order on that order that supplies items; update_product,
\* update_order without items and every lot or customer operation leave
\* every item's order, product, quantity and unit_price as they were.
C13_SnapshotFrame ==
    [][ /\ \A o \in OrderIds, pid \in ProductIds :
              (/\ PricesOf(items, o, pid) # {}
               /\ PricesOf(items', o, pid) # {}
               /\ PricesOf(items', o, pid) # PricesOf(items, o, pid))
              => (/\ last'.op = "update_order"
                  /\ last'.id = o
                  /\ last'.req.has_items)
        /\ (\/ last'.op \in FrameOps
            \/ (last'.op = "update_order" /\ ~last'.req.has_items))
              => ItemFacts(items') = ItemFacts(items)
      ]_vars

\* an update_product has moved the live price away from the price an item
\* of that product holds
C13_Witness ==
    /\ last.op = "update_product"
    /\ last.code = "ok"
    /\ \E i \in DOMAIN items :
          /\ items[i].product_id = last.id
          /\ items[i].unit_price # products[last.id]
          /\ products[last.id] = last.req

\* ------------------------------------------------------------------------
\* Properties of failing requests
\* ------------------------------------------------------------------------
\* the operations that look up the rows a request names
LookupOps == { "create_order", "update_order", "create_lot", "update_lot" }

\* C14: when create_order, update_order, create_lot or update_lot raises,
\* the committed rows of every table are those from before the call: the
\* order's previous items are still there and a lot being created is not.
C14_FailureAborts ==
    [][ (last'.op \in LookupOps /\ last'.code \notin {"ok", "not_found"})
          => /\ customers' = customers
             /\ products' = products
             /\ orders' = orders
             /\ items' = items
             /\ lots' = lots
      ]_vars

\* an update_order has deleted the order's items, then failed on a missing
\* product, and the items are in the store
C14_Witness ==
    /\ last.op = "update_order"
    /\ last.code = "ValueError"
    /\ last.wrote # << >>
    /\ DOMAIN last.pre # {}
    /\ \A pid \in DOMAIN last.pre :
          \E i \in RowsOf(last.id, pid) : items[i].unit_price = last.pre[pid]

\* C15: a create_order, update_order, create_lot or update_lot that fails
\* on a missing customer, product, order or order item has raised before
\* it sent any write to the store.
C15_ChecksBeforeWrites ==
    (last.op \in LookupOps /\ last.code = "ValueError")
        => last.wrote = << >>

\* ------------------------------------------------------------------------
\* Properties of lot associations that name missing items
\* ------------------------------------------------------------------------
\* the request reached _apply_lot_associations with order_item_ids given
Applied ==
    /\ LotOp
    /\ last.req.has_ids
    /\ last.op = "update_lot" => last.id \in DOMAIN last.pre.lots
    /\ last.op = "create_lot" => last.code # "IntegrityError"

\* the requested ids that are no item, or no item of the order given
Unresolved ==
    { i \in last.req.order_item_ids :
        \/ i \notin DOMAIN last.pre.items
        \/ /\ last.req.order_id # None
           /\ last.pre.items[i].order_id # last.req.order_id }

\* C18 as stated: when a requested id does not resolve, the call fails with
\* an error that names exactly the unresolved ids, and no item's lot_id
\* changes.
C18_NamesUnresolvedIds ==
    (Applied /\ Unresolved # {}) =>
        /\ last.code = "ValueError"
        /\ last.body.items = Unresolved
        /\ items = last.pre.items

\* C18 as amended: when a requested id does not resolve, the call fails and
\* no item's lot_id changes; the error names exactly the unresolved ids when
\* no order_id is given or the order exists, and names the order, and no
\* item, when order_id is given and the order does not exist.
C18_NamesUnresolvedOrOrder ==
    (Applied /\ Unresolved # {}) =>
        /\ last.code = "ValueError"
        /\ items = last.pre.items
        /\ IF last.req.order_id = None \/ last.req.order_id \in DOMAIN orders
           THEN last.body.order = None /\ last.body.items = Unresolved
           ELSE last.body.order = last.req.order_id /\ last.body.items = {}

\* an update_lot of a lot that holds an item has named an existing item of
\* another order together with the order it gave, and has failed
C18_Witness ==
    /\ last.op = "update_lot"
    /\ Applied
    /\ last.code = "ValueError"
    /\ last.req.order_id \in DOMAIN orders
    /\ Unresolved \cap DOMAIN items # {}
    /\ last.body.items = Unresolved
    /\ LotItems(DB, last.id) # {}

\* ------------------------------------------------------------------------
\* Properties of lot updates that name no order and no item
\* ------------------------------------------------------------------------
MetadataOnly ==
    /\ last.op = "update_lot"
    /\ ~last.req.has_ids
    /\ last.req.order_id = None

\* C19: a lot update that supplies neither order_id nor order_item_ids
\* changes no item's lot_id; every lot holds the items it held before.
C19_MetadataOnlyKeepsItems ==
    MetadataOnly =>
        /\ DOMAIN items = DOMAIN last.pre.items
        /\ \A i \in DOMAIN items : items[i].lot_id = last.pre.items[i].lot_id
        /\ \A l \in LotIds : LotItems(DB, l) = LotItems(last.pre, l)

\* a lot that holds items has had its date, name or location changed
C19_Witness ==
    /\ MetadataOnly
    /\ last.code = "ok"
    /\ last.id \in DOMAIN last.pre.lots
    /\ lots[last.id] # last.pre.lots[last.id]
    /\ LotItems(DB, last.id) # {}

\* ------------------------------------------------------------------------
\* Properties of a lot association applied again
\* ------------------------------------------------------------------------
\* an update_lot that names an order or items has associated them
Associated ==
    /\ last.op = "update_lot"
    /\ last.code = "ok"
    /\ last.req.has_ids \/ last.req.order_id # None

\* the same request sent again leaves every row as it is
AgainTheSame ==
    LET r == update_lot(DB, last.id, last.req)
    IN  /\ r.code = "ok"
        /\ r.db.items = items

\* the store the request found, had the lot held the rows H instead
HeldInstead(H) ==
    [ DB EXCEPT
        !.lots  = last.pre.lots,
        !.items = [ i \in DOMAIN last.pre.items |->
                      [ last.pre.items[i] EXCEPT
                          !.lot_id = IF i \in H THEN last.id
                                     ELSE IF @ = last.id THEN None
                                     ELSE @ ] ] ]

\* the rows the lot holds after the request are those it would hold had it
\* held any other rows before
AnyHeldBefore ==
    \A H \in SUBSET DOMAIN last.pre.items :
        LET r == update_lot(HeldInstead(H), last.id, last.req)
        IN  /\ r.code = "ok"
            /\ LotItems(r.db, last.id) = LotItems(DB, last.id)

\* C20: the same update_lot association applied a second time, right after
\* the first, leaves every item's lot_id as the first application left it,
\* and the rows the lot holds after an association do not depend on the rows
\* it held before.
C20_IdempotentNeverMerge ==
    Associated => AgainTheSame /\ AnyHeldBefore

\* the lot held exactly the requested rows, and the same request has been
\* applied to it
C20_Witness ==
    /\ Associated
    /\ last.req.has_ids
    /\ last.req.order_item_ids # {}
    /\ LotItems(last.pre, last.id) = last.req.order_item_ids
    /\ LotItems(DB, last.id) = last.req.order_item_ids

\* ------------------------------------------------------------------------
\* Properties of two update_order calls on one order
\* ------------------------------------------------------------------------
\* both calls have returned or raised
Finished ==
    /\ last.op = "update_order"
    /\ \A c \in Callers : sessions[c].pc \in {"ok", "ValueError",
                                                 "IntegrityError"}

\* what the rows of the order say, whatever ids they got
Content(its, order_id) ==
    { << its[i].product_id, its[i].quantity, its[i].unit_price >> :
        i \in { j \in DOMAIN its : its[j].order_id = order_id } }

\* the call of caller c, served alone on the store both calls found
Alone(c) == update_order(last.pre, last.id, last.req[c])

\* C16: two concurrent update_order calls on the same order that both
\* supply items both finish, and the committed items of the order are those
\* one of the two calls produces alone, whatever items the order had.
C16_OneOfTheTwo ==
    (Finished /\ \A c \in Callers : Alone(c).code = "ok") =>
        /\ \A c \in Callers : sessions[c].pc = "ok"
        /\ \E c \in Callers :
              Content(items, last.id) = Content(Alone(c).db.items, last.id)

\* ------------------------------------------------------------------------
\* Properties of lot names
\* ------------------------------------------------------------------------
\* the date and the free text a successful create_lot or update_lot leaves
\* the lot with, read off the request and the row it found
DateGiven ==
    IF last.op = "create_lot" \/ last.req.lot_date # None
    THEN last.req.lot_date ELSE last.pre.lots[last.id].lot_date

TextGiven ==
    IF last.op = "create_lot" \/ last.req.has_location
    THEN last.req.location ELSE last.pre.lots[last.id].location

\* the date as text, and after it a blank and the text without the blanks
\* around it when that leaves anything
Canonical(lot_date, text) ==
    IF Strip(text) = << >> THEN DateText(lot_date)
    ELSE DateText(lot_date) \o <<" ">> \o Strip(text)

\* the request carries a name
NameGiven == last.op = "create_lot" \/ last.req.has_name

\* C21: after every successful create_lot or update_lot the stored name is
\* the composed name of the lot's date and trimmed free text, whatever name
\* the caller supplied; the supplied name is the stored one only when,
\* trimmed, it is that composed name.
C21_NameIsComposed ==
    (LotOp /\ last.code = "ok") =>
        /\ lots[last.id].lot_date = DateGiven
        /\ lots[last.id].name = Canonical(DateGiven, TextGiven)
        /\ (NameGiven /\ lots[last.id].name = Strip(last.req.name))
              => Strip(last.req.name) = Canonical(DateGiven, TextGiven)

\* a caller has sent a name that is not the composed one, with a padded or
\* blank free text, and the call has succeeded
C21_Witness ==
    /\ LotOp
    /\ last.code = "ok"
    /\ NameGiven
    /\ Strip(last.req.name) # Canonical(DateGiven, TextGiven)
    /\ TextGiven # Strip(TextGiven)

\* ------------------------------------------------------------------------
\* Properties of the reports by category
\* ------------------------------------------------------------------------
ByCategory ==
    last.op \in {"report_expenses_categories", "report_income_categories"}

\* the categories and the records the report is about
ReportedCategories ==
    IF last.op = "report_expenses_categories" THEN expenses_categories
    ELSE incomes_categories

ReportedTable ==
    IF last.op = "report_expenses_categories" THEN expenses ELSE incomes

\* the records of category c dated from start_date to end_date, both included
Active(c) ==
    { e \in DOMAIN ReportedTable :
        /\ ReportedTable[e].category_id = c
        /\ ReportedTable[e].timestamp >= last.req.start_date
        /\ ReportedTable[e].timestamp <= last.req.end_date }

\* C22: the reports by category return exactly one row per category, every
\* category when category_ids is absent and only the listed ones when it is
\* a non-empty set; a category without a record dated inside the window has
\* amount 0 and count 0, and no record outside the window counts in any row.
C22_OneRowPerCategory ==
    ByCategory =>
        LET rows   == last.body
            listed == IF last.req.category_ids = {} THEN ReportedCategories
                      ELSE ReportedCategories \cap last.req.category_ids
        IN  /\ { rows[k].category_id : k \in DOMAIN rows } = listed
            /\ Len(rows) = Cardinality(listed)
            /\ \A k \in DOMAIN rows :
                  LET act == Active(rows[k].category_id)
                  IN  /\ rows[k].count = Cardinality(act)
                      /\ rows[k].amount
                            = SumOver(act, [ e \in act |-> ReportedTable[e].amount ])
                      /\ act = {} => rows[k].amount = 0 /\ rows[k].count = 0

\* a report over two categories, one with a record inside the window, one
\* with its only record outside
C22_Witness ==
    /\ ByCategory
    /\ Len(last.body) = 2
    /\ \E k \in DOMAIN last.body : last.body[k].count > 0
    /\ \E k \in DOMAIN last.body :
          /\ last.body[k].count = 0
          /\ \E e \in DOMAIN ReportedTable :
                ReportedTable[e].category_id = last.body[k].category_id

\* ------------------------------------------------------------------------
\* Properties of the sales report of a customer
\* ------------------------------------------------------------------------
Sales == last.op = "report_customer_sales"

\* the customer's lines of product pid delivered inside the window
Sold(pid) ==
    { i \in DOMAIN items :
        /\ items[i].product_id = pid
        /\ orders[items[i].order_id].customer_id = last.req.customer_id
        /\ orders[items[i].order_id].delivery_date >= last.req.start_date
        /\ orders[items[i].order_id].delivery_date <= last.req.end_date }

\* their revenue before rounding, in hundredths of a cent
Unrounded(pid) ==
    SumOver(Sold(pid), [ i \in Sold(pid) |->
        items[i].quantity * items[i].unit_price
            * (100 - orders[items[i].order_id].applied_discount) ])

RowsRevenue ==
    SumOver(DOMAIN last.body.per_product,
            [ pid \in DOMAIN last.body.per_product |->
                last.body.per_product[pid].revenue ])

\* C23 as stated: total_revenue equals the sum of the revenue fields of the
\* returned per_product rows, each revenue being the rounded sum of
\* quantity * unit_price * (1 - applied_discount / 100) over the customer's
\* in-window lines of the product.
C23_TotalIsSumOfRows ==
    Sales =>
        /\ \A pid \in DOMAIN last.body.per_product :
              last.body.per_product[pid].revenue = Round2(Unrounded(pid))
        /\ last.body.total_revenue = RowsRevenue

\* C23 as amended: every row's revenue is the rounded revenue of its
\* product, total_revenue is the rounded sum of the unrounded revenues of
\* the products, and total_revenue and the sum of the rows' revenues are
\* less than one cent per row apart.
C23_TotalIsRoundedSum ==
    Sales =>
        LET rows == last.body.per_product
        IN  /\ DOMAIN rows = { pid \in DOMAIN products : Sold(pid) # {} }
            /\ \A pid \in DOMAIN rows :
                  rows[pid].revenue = Round2(Unrounded(pid))
            /\ last.body.total_revenue
                  = Round2(SumOver(DOMAIN rows,
                               [ pid \in DOMAIN rows |-> Unrounded(pid) ]))
            /\ last.body.total_revenue - RowsRevenue <= Cardinality(DOMAIN rows)
            /\ RowsRevenue - last.body.total_revenue <= Cardinality(DOMAIN rows)

\* a report with two rows whose revenues were both rounded
C23_Witness ==
    /\ Sales
    /\ Cardinality(DOMAIN last.body.per_product) = 2
    /\ \A pid \in DOMAIN last.body.per_product :
          100 * last.body.per_product[pid].revenue # Unrounded(pid)

\* ------------------------------------------------------------------------
\* Listing
\* ------------------------------------------------------------------------
ListingOps == {"list_orders", "list_lots", "list_expenses", "list_incomes",
               "list_products", "list_customers"}

Listed == last.op \in ListingOps

\* the listing last served, asked again with another request
Relist(req) ==
    CASE last.op = "list_orders"    -> list_orders(DB, req)
      [] last.op = "list_lots"      -> list_lots(DB, req)
      [] last.op = "list_expenses"  -> list_expenses(DB, req)
      [] last.op = "list_incomes"   -> list_incomes(DB, req)
      [] last.op = "list_products"  -> list_products(DB, req)
      [] last.op = "list_customers" -> list_customers(DB, req)

\* the ids of the rows of the store that pass the filters of the request
Matching(req) ==
    LET given == { f \in DOMAIN req.filters : req.filters[f] # None }
    IN  CASE last.op = "list_orders" ->
               { o \in DOMAIN orders : \A f \in given :
                   OrderFilter(DB, o, f, req.filters[f]) }
          [] last.op = "list_lots" ->
               { l \in DOMAIN lots : \A f \in given :
                   LotFilter(DB, l, f, req.filters[f]) }
          [] last.op = "list_expenses" ->
               { e \in DOMAIN expenses : \A f \in given :
                   EntryFilter(expenses, e, f, req.filters[f]) }
          [] last.op = "list_incomes" ->
               { e \in DOMAIN incomes : \A f \in given :
                   EntryFilter(incomes, e, f, req.filters[f]) }
          [] last.op = "list_products" ->
               { p \in DOMAIN products : \A f \in given :
                   f = "id" => p = req.filters[f] }
          [] last.op = "list_customers" ->
               { c \in customers : \A f \in given :
                   f = "id" => c = req.filters[f] }

\* the ids on a page
PageIds(page) == { page.items[k].id : k \in DOMAIN page.items }

\* the number of pages of a positive size that hold total rows
LastPage(total, size) == (total + size - 1) \div size

\* the sort entries order any two rows: one of them names the id
TotalSort(sort) == \E k \in DOMAIN sort : sort[k].field = "id"

\* C24: total is the number of rows matching the filters, whatever page and
\* size are; a page beyond the last one of a positive size is empty with that
\* same total; under a total sort key the pages 1..k of a positive size hold
\* each matching row exactly once.
C24_TotalAndPages ==
    Listed =>
        LET req   == last.req
            total == Cardinality(Matching(req))
            k     == LastPage(total, req.size)
        IN  /\ last.body.total = total
            /\ (req.size > 0 /\ req.page > k) => last.body.items = << >>
            /\ (req.size > 0 /\ TotalSort(req.sort)) =>
                  /\ \A r \in Matching(req) :
                        Cardinality({ p \in 1 .. k :
                            r \in PageIds(Relist([ req EXCEPT !.page = p ])) })
                          = 1
                  /\ \A p \in 1 .. k :
                        LET pg == Relist([ req EXCEPT !.page = p ])
                        IN  /\ PageIds(pg) \subseteq Matching(req)
                            /\ Cardinality(PageIds(pg)) = Len(pg.items)

\* the second page of one row each, of two matching rows under a total sort
\* key
C24_Witness ==
    /\ Listed
    /\ last.req.size = 1
    /\ last.req.page = 2
    /\ TotalSort(last.req.sort)
    /\ last.body.total = 2
    /\ Len(last.body.items) = 1

\* the listing returned every row that passes the filters
Unbounded == PageIds(last.body) = Matching(last.req)

\* C25: a size of 0 applies no limit on the orders, lots, expenses and
\* incomes listings, a negative size applies none on the orders and lots
\* listings, and paginate_filter_sort (customers, products) serves a size
\* below 1 as a size of 1.
C25_SizeSemantics ==
    /\ (/\ last.op \in {"list_orders", "list_lots", "list_expenses",
                        "list_incomes"}
        /\ last.req.size = 0) => Unbounded
    /\ (/\ last.op \in {"list_orders", "list_lots"}
        /\ last.req.size < 0) => Unbounded
    /\ (/\ last.op \in {"list_products", "list_customers"}
        /\ last.req.size < 1) =>
            last.body = Relist([ last.req EXCEPT !.size = 1 ])

\* the allowed-field map of the listing last served
AllowedFields ==
    CASE last.op = "list_orders"    -> ALLOWED_SORTING_FIELDS
      [] last.op = "list_lots"      -> ALLOWED_LOTS_SORTING_FIELDS
      [] last.op = "list_expenses"  -> ALLOWED_EXPENSES_SORTING_FIELDS
      [] last.op = "list_incomes"   -> ALLOWED_INCOMES_SORTING_FIELDS
      [] last.op = "list_products"  -> ALLOWED_PRODUCT_FIELDS
      [] last.op = "list_customers" -> ALLOWED_CUSTOMER_FIELDS

\* the request without the filter keys and sort entries outside the map
WithoutUnknown(req) ==
    [ req EXCEPT
        !.filters = [ f \in (DOMAIN req.filters) \cap AllowedFields |->
                        req.filters[f] ],
        !.sort    = SelectSeq(req.sort,
                        LAMBDA c : c.field \in AllowedFields) ]

\* the request names a filter or a sort field outside the map
NamesUnknown(req) ==
    \/ \E f \in DOMAIN req.filters :
          f \notin AllowedFields /\ req.filters[f] # None
    \/ \E k \in DOMAIN req.sort : req.sort[k].field \notin AllowedFields

\* C26: a listing request with filter keys or sort entries outside the
\* allowed-field map is served, with the total and the items of the request
\* without them.
C26_UnknownFieldsIgnored ==
    (Listed /\ NamesUnknown(last.req)) =>
        /\ last.code = "ok"
        /\ last.body = Relist(WithoutUnknown(last.req))

\* an unknown filter key with a value and an unknown sort entry, next to a
\* known filter that drops a row and a known sort entry that reorders
C26_Witness ==
    /\ last.op = "list_lots"
    /\ last.req.filters.colour = 1
    /\ last.req.filters.id = None
    /\ Len(last.req.sort) = 2
    /\ Len(last.body.items) = 2
    /\ last.body.items[1].id = 2

\* the date range filters of the listings
DateRangeFilters ==
    {"delivery_date_after", "delivery_date_before", "lot_date_after",
     "lot_date_before", "timestamp_after", "timestamp_before"}

\* the request carries a date range filter whose value does not parse
UnparsableRange(req) ==
    \E f \in (DOMAIN req.filters) \cap DateRangeFilters :
        req.filters[f] = Unparsable

\* C27: list_orders, list_lots, list_expenses and list_incomes serve a
\* request with a date range filter that does not parse as an ISO date, and
\* return total = 0 and no items whatever the store holds.
C27_UnparsableMatchesNothing ==
    (Listed /\ UnparsableRange(last.req)) =>
        /\ last.code = "ok"
        /\ last.body.total = 0
        /\ last.body.items = << >>

\* ------------------------------------------------------------------------
\* Referential integrity
\* ------------------------------------------------------------------------
\* every item is the item of an order, in no lot or in a lot of the store
ItemsRefer ==
    \A i \in DOMAIN items :
        /\ items[i].order_id \in DOMAIN orders
        /\ items[i].lot_id = None \/ items[i].lot_id \in DOMAIN lots

\* a delete_order step, seen from the state it is called in
DeletesOrder == last'.op = "delete_order"

\* what delete_order of an order of the store leaves
OrderRemoved ==
    /\ last'.code = "ok"
    /\ last'.body = TRUE
    /\ DOMAIN orders' = DOMAIN orders \ {last'.id}
    /\ \A o \in DOMAIN orders' : orders'[o] = orders[o]
    /\ DOMAIN items' = { i \in DOMAIN items : items[i].order_id # last'.id }
    /\ \A i \in DOMAIN items' : items'[i] = items[i]
    /\ \A l \in DOMAIN lots :
          { i \in DOMAIN items' : items'[i].lot_id = l }
            = { i \in DOMAIN items : /\ items[i].lot_id = l
                                     /\ items[i].order_id # last'.id }
    /\ UNCHANGED <<lots, customers, products>>

\* what delete_order of an id that is no order leaves: `return False`
NothingRemoved ==
    /\ last'.code = "not_found"
    /\ last'.body = NotFound
    /\ UNCHANGED <<orders, items, lots, customers, products>>

\* C28: every item references an existing order and no lot or an existing
\* lot; delete_order of an existing order removes the order and all its
\* items, which leave their lots with it; delete_order of a missing id
\* returns False and changes nothing.
C28_ReferentialIntegrity ==
    [][ /\ ItemsRefer'
        /\ DeletesOrder =>
              IF last'.id \in DOMAIN orders THEN OrderRemoved
              ELSE NothingRemoved ]_vars

\* delete_order has removed an order from a store that keeps another order
\* with an item in a lot
C28_Witness ==
    /\ last.op = "delete_order"
    /\ last.code = "ok"
    /\ orders # << >>
    /\ \E i \in DOMAIN items : items[i].lot_id \in DOMAIN lots

\* ------------------------------------------------------------------------
\* Item replacement and lots
\* ------------------------------------------------------------------------
\* an update_order step that replaced the items, seen from the state it is
\* called in
ReplacesItems ==
    /\ last'.op = "update_order"
    /\ last'.code = "ok"
    /\ last'.req.has_items

\* the items in lot l
InLot(its, l) == { i \in DOMAIN its : its[i].lot_id = l }

NoneDangling ==
    /\ \A o \in DOMAIN orders : orders[o].customer_id \in customers
    /\ \A i \in DOMAIN items : items[i].product_id \in DOMAIN products

\* a delete request found its product or customer referenced when it came to
\* delete it
LostTheRace ==
    /\ last.op \in {"delete_product", "delete_customer"}
    /\ last.pre.exists
    /\ last.pre.referenced

\* C30: with the reference check and the delete in separate transactions and
\* create_order calls in between, no committed state has an order without
\* its customer or an item without its product, and a delete request that
\* finds a reference ends with the conflict signal.
C30_DeleteRace ==
    /\ NoneDangling
    /\ LostTheRace => last.code = "409"

====
